---- MODULE Spec2Model ----
(***************************************************************************)
(* Offline content synchronisation of the Soch flipbook shell.             *)
(*                                                                         *)
(* The model covers the device (Capacitor) mode of                         *)
(*   - SochMedia    (src/unnamed/part_003): file naming, extraction,       *)
(*                   download pass, cleanup, URL rewriting;                *)
(*   - SochStorage  (src/www/storage.js): downloadFile, getLocalFileUri,   *)
(*                   saveJsonData, readLocalJsonData, getCurrentJsonVersion*)
(*   - SochFlipbook (src/www/flipbook.js production version, and the       *)
(*                   earlier loadFlipbook of src/unnamed/part_000).        *)
(*                                                                         *)
(* Strings are modelled as sequences of tokens, so that string             *)
(* concatenation is \o and two file names are equal exactly when their     *)
(* token sequences are equal.                                              *)
(***************************************************************************)
EXTENDS Integers, Sequences, FiniteSets, TLC

(***************************************************************************)
(* Bounds of the model.                                                    *)
(***************************************************************************)
MaxProducts == 2
MaxLoads == 2
MaxSessions == 2
MaxPasses == 2
MaxFaults == 1

(***************************************************************************)
(* URLs.  A URL is a record of the parts the code looks at:                *)
(*   head  : its first six characters (all that btoa(url).substring(0,8)   *)
(*           depends on);                                                  *)
(*   host  : the host name;                                                *)
(*   path  : the path segments, each split into name and extension;        *)
(*   glued : parameters that follow the path behind '&' with no '?';       *)
(*   query : the query parameters behind '?', in order.                    *)
(* NoUrl is the absent/empty (falsy) field value.                          *)
(***************************************************************************)
Seg(n, e) == [name |-> n, ext |-> e]

Url(h, p, q) == [head |-> "https:", host |-> h, path |-> p, glued |-> <<>>, query |-> q]

NoUrl == [head |-> "", host |-> "", path |-> <<>>, glued |-> <<>>, query |-> <<>>]

\* https://host/a1.jpg
UrlA == Url("host", <<Seg("a1", "jpg")>>, <<>>)
\* https://host/b2.jpg
UrlB == Url("host", <<Seg("b2", "jpg")>>, <<>>)
\* https://www.dropbox.com/scl/fi/abc123xyz9/clip.mp4?rlkey=k&dl=0
UrlV == Url("dropbox.com",
            <<Seg("scl", ""), Seg("fi", ""), Seg("abc123xyz9", ""), Seg("clip", "mp4")>>,
            <<"rlkey=k", "dl=0">>)

Urls == {UrlA, UrlB, UrlV}

\* https://host/winter/a1.jpg
UrlA2 == Url("host", <<Seg("winter", ""), Seg("a1", "jpg")>>, <<>>)

StyleCodes == {"A1", "B2"}

(***************************************************************************)
(* Values of a media field of a catalog: a remote URL (or NoUrl), or,      *)
(* after rewriting, a local file URI (file://.../SochApp/<folder>/<name>). *)
(***************************************************************************)
Remote(u) == [scheme |-> "remote", url |-> u, folder |-> "", name |-> <<>>]

FileUri(folder, fileName) ==
    [scheme |-> "file", url |-> NoUrl, folder |-> folder, name |-> fileName]

Truthy(ref) == ref # Remote(NoUrl)

(***************************************************************************)
(* SochMedia.convertDropboxUrl: url.replace(/[?&]dl=[01]/, '') removes the *)
(* first dl=0 / dl=1 parameter together with the separator in front of it; *)
(* then dl=1 is appended with '&' if a '?' is left in the URL and with '?' *)
(* otherwise.  When the removed parameter was the first of several, the    *)
(* '?' goes with it and the remaining parameters stay glued to the path    *)
(* behind '&' (field glued).                                               *)
(***************************************************************************)
IsDl(p) == p \in {"dl=0", "dl=1"}

HasDl(q) == \E i \in 1..Len(q) : IsDl(q[i])

RECURSIVE RemoveFirstDl(_)
RemoveFirstDl(q) ==
    IF q = <<>> THEN <<>>
    ELSE IF IsDl(Head(q)) THEN Tail(q)
    ELSE <<Head(q)>> \o RemoveFirstDl(Tail(q))

convertDropboxUrl(u) ==
    IF u.host # "dropbox.com" THEN u
    ELSE IF HasDl(u.glued) THEN
        [u EXCEPT !.glued = RemoveFirstDl(u.glued),
                  !.query = u.query \o <<"dl=1">>]
    ELSE IF u.query # <<>> /\ IsDl(Head(u.query)) THEN
        [u EXCEPT !.glued = u.glued \o Tail(u.query),
                  !.query = <<"dl=1">>]
    ELSE
        [u EXCEPT !.query = RemoveFirstDl(u.query) \o <<"dl=1">>]

(***************************************************************************)
(* btoa(url).substring(0, 8).replace(/[\/\+]/g, ''): base64 turns 6 bytes  *)
(* into 8 characters, so the "hash" is a function of the first six         *)
(* characters of the URL only.                                             *)
(***************************************************************************)
urlHash(u) ==
    CASE u.head = "https:" -> "aHR0cHM6"
      [] u.head = "http:/" -> "aHR0cDov"
      [] OTHER -> "AAAAAAAA"

\* fileId.substring(0, 8)
substring8(s) ==
    CASE s = "abc123xyz9" -> "abc123xy"
      [] s = "abc123xyQQ" -> "abc123xy"
      [] OTHER -> s

MediaExts == {"mp4", "mov", "avi", "mkv", "jpg", "jpeg", "png", "gif"}

\* url.includes('.ext') on the path of the URL
IncludesExt(u, e) == \E i \in 1..Len(u.path) : u.path[i].ext = e

\* the first path segment matched by /\/([^\/\?]+)\.(mp4|mov|...)/i
FirstMediaSeg(u) ==
    LET I == {i \in 1..Len(u.path) : u.path[i].ext \in MediaExts}
    IN  IF I = {} THEN 0 ELSE CHOOSE i \in I : \A j \in I : i <= j

\* /\/scl\/fi\/([^\/]+)\/([^\/\?]+)/
SclMatch(u) ==
    /\ Len(u.path) >= 4
    /\ u.path[1] = Seg("scl", "")
    /\ u.path[2] = Seg("fi", "")

(***************************************************************************)
(* SochMedia.getFileNameFromUrl(url, prefix).  prefix is a token sequence. *)
(***************************************************************************)
getFileNameFromUrl(u, prefix) ==
    IF u.host = "dropbox.com" THEN
        IF SclMatch(u) THEN
            LET fileId == u.path[3].name
                originalName == u.path[4]
                extension ==
                    IF originalName.ext # "" THEN originalName.ext
                    ELSE IF IncludesExt(u, "jpg") \/ IncludesExt(u, "jpeg") THEN "jpg"
                    ELSE IF IncludesExt(u, "png") THEN "png"
                    ELSE "mp4"
            IN  prefix \o <<substring8(fileId), ".", extension>>
        ELSE IF FirstMediaSeg(u) # 0 THEN
            LET s == u.path[FirstMediaSeg(u)]
            IN  prefix \o <<s.name, ".", s.ext>>
        ELSE prefix \o <<urlHash(u), ".", "mp4">>
    ELSE
        LET last == IF u.path = <<>> THEN Seg("", "") ELSE u.path[Len(u.path)]
        IN  IF last.ext # "" THEN
                prefix \o <<urlHash(u), "_", last.name, ".", last.ext>>
            ELSE
                LET extension ==
                        IF IncludesExt(u, "mp4") THEN "mp4"
                        ELSE IF IncludesExt(u, "jpg") THEN "jpg"
                        ELSE IF IncludesExt(u, "png") THEN "png"
                        ELSE "jpg"
                IN  prefix \o <<urlHash(u), ".", extension>>

(***************************************************************************)
(* The whole of getFileNameFromUrl, with its try/catch.  btoa throws an    *)
(* InvalidCharacterError on a string with a character above U+00FF; the    *)
(* catch then names the file after Date.now().  part_003 reaches btoa on   *)
(* every path but the two Dropbox matches, storage.js calls it first.      *)
(***************************************************************************)
MaxClock == 2

MaxCalls == 3

\* path segment names that hold a character outside Latin-1
NonLatin1Names == {"photo_U+5199"}

\* https://host/<U+5199>.jpg
UrlN == Url("host", <<Seg("photo_U+5199", "jpg")>>, <<>>)
\* https://www.dropbox.com/scl/fi/abc123xyz9/<U+5199>.mp4?dl=0
UrlDN == Url("dropbox.com",
             <<Seg("scl", ""), Seg("fi", ""), Seg("abc123xyz9", ""), Seg("photo_U+5199", "mp4")>>,
             <<"dl=0">>)

NamedUrls == {UrlA, UrlV, UrlN, UrlDN}

NamePrefixes == {<<>>, <<"A1", "_">>}

btoaThrows(u) == \E i \in 1..Len(u.path) : u.path[i].name \in NonLatin1Names

\* prefix + Date.now() + '.jpg'
EmergencyName(prefix, now) == prefix \o <<ToString(now), ".", "jpg">>

\* SochMedia.getFileNameFromUrl called at time now
getFileNameFromUrlAt(u, prefix, now) ==
    IF btoaThrows(u) /\ ~(u.host = "dropbox.com" /\ (SclMatch(u) \/ FirstMediaSeg(u) # 0))
    THEN EmergencyName(prefix, now)
    ELSE getFileNameFromUrl(u, prefix)

\* SochStorage.getFileNameFromUrl called at time now
getFileNameFromUrlStorageAt(u, prefix, now) ==
    IF btoaThrows(u) THEN EmergencyName(prefix, now)
    ELSE IF u.host = "dropbox.com" THEN
        IF FirstMediaSeg(u) # 0 THEN
            LET s == u.path[FirstMediaSeg(u)]
            IN  prefix \o <<urlHash(u), "_", s.name, ".", s.ext>>
        ELSE prefix \o <<urlHash(u), ".", "mp4">>
    ELSE getFileNameFromUrl(u, prefix)

NameCall(module, u, prefix, now) ==
    [module |-> module, url |-> u, prefix |-> prefix,
     fileName |-> IF module = "media" THEN getFileNameFromUrlAt(u, prefix, now)
                  ELSE getFileNameFromUrlStorageAt(u, prefix, now)]

NoNaming == [clock |-> 0, calls |-> {}]

(***************************************************************************)
(* Catalogs.  collections is the list of the catalog's collections in      *)
(* Object.keys order; a media field holds Remote(url), Remote(NoUrl) when  *)
(* the field is empty, or a local reference after rewriting.               *)
(***************************************************************************)
Product(sc, img, vid) ==
    [style_code |-> sc, image_url |-> Remote(img), video |-> Remote(vid)]

Collection(k, banner, ps) ==
    [key |-> k, collection_image_url |-> Remote(banner), products |-> ps]

Catalog(v, cs) == [version |-> v, collections |-> cs]

\* no catalog: the value read when json/data.json is absent (null)
NoCatalog == [version |-> "", collections |-> <<>>]

\* the inputs: catalogs of one collection "summer" with up to MaxProducts
\* products of distinct style codes
ImageUrls == {NoUrl, UrlA, UrlV}

VideoUrls == {NoUrl, UrlV, UrlA}

BannerUrls == {NoUrl, UrlA}

Products == {Product(sc, i, v) : sc \in StyleCodes, i \in ImageUrls, v \in VideoUrls}

ProductSeqs ==
    UNION {{ps \in [1..n -> Products] :
                \A i, j \in 1..n : i # j => ps[i].style_code # ps[j].style_code} :
           n \in 0..MaxProducts}

CatalogSet ==
    {Catalog("v1", <<Collection("summer", b, ps)>>) : b \in BannerUrls, ps \in ProductSeqs}

\* catalogs that list the product A1 in two collections
SharedProductCatalogs ==
    {Catalog("v1", <<Collection("summer", NoUrl, <<Product("A1", i, NoUrl)>>),
                     Collection("winter", NoUrl, <<Product("A1", j, NoUrl)>>)>>) :
         i \in {UrlA, UrlA2}, j \in {UrlA, UrlA2}}

(***************************************************************************)
(* The media fields of a catalog in the order in which both                *)
(* extractUniqueMediaFiles and replaceUrlsWithLocalPaths visit them: per   *)
(* collection the banner, then per product the image and the video, each   *)
(* with the file-name prefix and the folder the code uses for that field.  *)
(***************************************************************************)
BannerPrefix(collectionKey) == <<"collection_", collectionKey, "_">>

ImagePrefix(style_code) == <<style_code, "_img_">>

VideoPrefix(style_code) == <<style_code, "_vid_">>

RECURSIVE ProductFields(_)
ProductFields(ps) ==
    IF ps = <<>> THEN <<>>
    ELSE LET p == Head(ps)
         IN  << [ref |-> p.image_url, prefix |-> ImagePrefix(p.style_code), folder |-> "images"],
                [ref |-> p.video, prefix |-> VideoPrefix(p.style_code), folder |-> "videos"] >>
             \o ProductFields(Tail(ps))

RECURSIVE CollectionFields(_)
CollectionFields(cs) ==
    IF cs = <<>> THEN <<>>
    ELSE LET c == Head(cs)
         IN  << [ref |-> c.collection_image_url, prefix |-> BannerPrefix(c.key),
                 folder |-> "images"] >>
             \o ProductFields(c.products)
             \o CollectionFields(Tail(cs))

MediaFields(cat) == CollectionFields(cat.collections)

(***************************************************************************)
(* SochMedia.extractUniqueMediaFiles: the Map from URL to file info, as    *)
(* the sequence of its entries in insertion order.  A field is added only  *)
(* if it is non-empty and its URL is not yet a key of the map.             *)
(***************************************************************************)
MapHas(map, u) == \E i \in 1..Len(map) : map[i].url = u

MapGet(map, u) == map[CHOOSE i \in 1..Len(map) : map[i].url = u]

\* extraction that forgets the urlToFileMap.has test
RECURSIVE ExtractFromNoHas(_, _)
ExtractFromNoHas(fields, map) ==
    IF fields = <<>> THEN map
    ELSE LET f == Head(fields)
             u == f.ref.url
         IN  IF Truthy(f.ref)
             THEN ExtractFromNoHas(Tail(fields),
                      Append(map, [url |-> u,
                                   fileName |-> getFileNameFromUrl(u, f.prefix),
                                   folder |-> f.folder,
                                   directUrl |-> convertDropboxUrl(u)]))
             ELSE ExtractFromNoHas(Tail(fields), map)

RECURSIVE ExtractFrom(_, _)
ExtractFrom(fields, map) ==
    IF fields = <<>> THEN map
    ELSE LET f == Head(fields)
             u == f.ref.url
         IN  IF Truthy(f.ref) /\ ~MapHas(map, u)
             THEN ExtractFrom(Tail(fields),
                      Append(map, [url |-> u,
                                   fileName |-> getFileNameFromUrl(u, f.prefix),
                                   folder |-> f.folder,
                                   directUrl |-> convertDropboxUrl(u)]))
             ELSE ExtractFrom(Tail(fields), map)

extractUniqueMediaFiles(cat) == ExtractFrom(MediaFields(cat), <<>>)

\* activeImageFiles / activeVideoFiles of cleanupUnusedFiles
ActiveFiles(cat, folder) ==
    LET map == extractUniqueMediaFiles(cat)
    IN  {map[i].fileName : i \in {j \in 1..Len(map) : map[j].folder = folder}}

(***************************************************************************)
(* SochStorage.getLocalFileUri: Filesystem.getUri turns a path into a URI  *)
(* without looking at the file system, so the result is non-null whether   *)
(* or not the file exists; it is null only when the plugin call rejects.   *)
(***************************************************************************)
NullRef == [scheme |-> "null", url |-> NoUrl, folder |-> "", name |-> <<>>]

getLocalFileUri(folderName, fileName, uriOk) ==
    IF uriOk THEN FileUri(folderName, fileName) ELSE NullRef

(***************************************************************************)
(* SochMedia.replaceUrlsWithLocalPaths on a deep copy of the catalog: each *)
(* non-empty media field gets the local URI of the file name recomputed    *)
(* from the field's own prefix, when getLocalFileUri returns one.          *)
(***************************************************************************)
ReplaceField(ref, prefix, folder, uriOk) ==
    IF ~Truthy(ref) THEN ref
    ELSE LET fileName == getFileNameFromUrl(ref.url, prefix)
             localUri == getLocalFileUri(folder, fileName, uriOk)
         IN  IF localUri # NullRef THEN localUri ELSE ref

replaceUrlsWithLocalPaths(cat, uriOk) ==
    [cat EXCEPT !.collections =
        [c \in DOMAIN cat.collections |->
            LET col == cat.collections[c]
            IN  [col EXCEPT
                   !.collection_image_url =
                       ReplaceField(col.collection_image_url, BannerPrefix(col.key),
                                    "images", uriOk),
                   !.products =
                       [p \in DOMAIN col.products |->
                           LET prod == col.products[p]
                           IN  [prod EXCEPT
                                  !.image_url =
                                      ReplaceField(prod.image_url,
                                                   ImagePrefix(prod.style_code),
                                                   "images", uriOk),
                                  !.video =
                                      ReplaceField(prod.video,
                                                   VideoPrefix(prod.style_code),
                                                   "videos", uriOk)]]]]]

(***************************************************************************)
(* replaceUrlsWithLocalPaths on objects.  jsonData is the object the       *)
(* caller passes; modifiedData is what the function works on, the result   *)
(* of JSON.parse(JSON.stringify(jsonData)).  The loop substitutes in       *)
(* modifiedData collection by collection; when it throws on reaching       *)
(* collection failAt (a collection or product that is null, a catalog      *)
(* without collections), the catch returns jsonData.  In browser mode      *)
(* jsonData is returned at once.                                           *)
(***************************************************************************)
\* const modifiedData = jsonData
modifiedDataAliased == "jsonData"

\* the object that modifiedData names
modifiedData == "modifiedData"

\* the catalog with the substitutions made in its collections before failAt
ReplacedBefore(cat, uriOk, failAt) ==
    LET full == replaceUrlsWithLocalPaths(cat, uriOk)
    IN  IF failAt = 0 THEN full
        ELSE [cat EXCEPT !.collections =
                 [c \in DOMAIN cat.collections |->
                     IF c < failAt THEN full.collections[c] ELSE cat.collections[c]]]

\* the objects after the call: the one passed in and the one returned
replaceUrlsWithLocalPathsObjects(cat, isCapacitor, uriOk, failAt) ==
    IF ~isCapacitor THEN [jsonData |-> cat, returned |-> cat]
    ELSE LET heap0 == [jsonData |-> cat, modifiedData |-> cat]
             heap1 == [heap0 EXCEPT ![modifiedData] = ReplacedBefore(cat, uriOk, failAt)]
         IN  [jsonData |-> heap1.jsonData,
              returned |-> IF failAt = 0 THEN heap1[modifiedData] ELSE heap1.jsonData]

\* the (folder, file name) pairs replaceUrlsWithLocalPaths looks up, per field
RECURSIVE LookupsOf(_)
LookupsOf(fields) ==
    IF fields = <<>> THEN <<>>
    ELSE LET f == Head(fields)
         IN  (IF Truthy(f.ref)
              THEN << [url |-> f.ref.url, folder |-> f.folder,
                       fileName |-> getFileNameFromUrl(f.ref.url, f.prefix)] >>
              ELSE <<>>)
             \o LookupsOf(Tail(fields))

(***************************************************************************)
(* State.                                                                  *)
(***************************************************************************)
VARIABLES
    build,          \* which loadFlipbook is loaded: "production", "part000", "debug"
    remote,         \* the catalog the backend serves
    isOnline,       \* SochNetwork.isOnline
    persisted,      \* json/data.json, NoCatalog when absent
    htmlStored,     \* html/flipbook.html exists
    images,         \* file names in images/
    videos,         \* file names in videos/
    downloadedUrls, \* SochStorage.downloadedUrls
    pc,             \* position of the running load / pass, "idle" when none
    ret,            \* where the download pass returns to
    jsonData,       \* the catalog the running load / pass works on
    urlToFileMap,   \* downloadMediaFiles: the extraction map
    idx,            \* downloadMediaFiles: position in the map
    counts,         \* downloadMediaFiles: downloadCount, skippedCount, errorCount
    flags,          \* loadFlipbook locals
    handed,         \* the catalog given to the viewer, NoCatalog when none
    result,         \* what the last loadFlipbook returned: "none", "true", "false"
    loads,          \* loads started so far
    sessions,       \* sessions started so far
    passes,         \* passes completed (pass specification)
    faults,         \* environment failures injected so far
    h,              \* history of the running load / pass, for the properties
    errorScreen,    \* hint of the error screen the load has shown, "none" when none
    net,            \* the network module loaded and its last connectivity check
    app,            \* app.js: initializeApp, the launch button, pending timers
    api,            \* the last SochNetwork.makeApiCall: its response and its outcome
    folders,        \* the folders of the app that exist in Documents
    lastEnsure,     \* the last SochStorage.ensureAppFolders: what it found, did and how it ended
    frames,         \* the viewer iframes that loadFlipbook created, with their load events and messages
    naming,         \* the clock (Date.now) and the calls of getFileNameFromUrl made so far
    probing,        \* SochNetwork.checkConnectivity: a check is awaiting its probe, and how the last probe ended
    report          \* downloadMediaFiles: the module loaded and the completion status its last pass logged

vars == <<build, remote, isOnline, persisted, htmlStored, images, videos,
          downloadedUrls, pc, ret, jsonData, urlToFileMap, idx, counts, flags,
          handed, result, loads, sessions, passes, faults, h, errorScreen, net, app, api, folders, lastEnsure, frames, naming, probing, report>>

Folder(name) == IF name = "images" THEN images ELSE videos

NoFlags == [hasLocalJson |-> FALSE, hasLocalHtml |-> FALSE,
            needsDownload |-> FALSE, useLocalData |-> FALSE]

NoCounts == [downloadCount |-> 0, skippedCount |-> 0, errorCount |-> 0]

NoHistory ==
    [transport |-> <<>>,        \* URLs given to FileTransfer.downloadFile in this pass
     stored |-> {},             \* <<folder, file>> written by the transport in this pass
     deleted |-> {},            \* <<folder, file>> deleted by cleanup in this pass
     before |-> [images |-> {}, videos |-> {}],  \* folders when cleanup started
     cleaned |-> FALSE,         \* cleanup of this pass has run
     passFaults |-> 0,          \* failures injected during this pass
     start |-> [images |-> {}, videos |-> {}],   \* folders when the pass started
     noList |-> {},             \* folders whose listing failed in cleanup
     noDel |-> {},              \* <<folder, file>> whose delete failed in cleanup
     lookups |-> <<>>,          \* (folder, file) looked up by the last rewriting
     input |-> NoCatalog,       \* the catalog given to the last rewriting
     uriOk |-> TRUE,            \* getUri worked in the last rewriting
     persistedAtStart |-> NoCatalog,  \* json/data.json when the load started
     warm |-> FALSE,            \* the load found catalog and viewer HTML stored
     online |-> FALSE,          \* isOnline when the load started
     versionChecked |-> FALSE,  \* the version check fetched the remote catalog
     remoteSeen |-> NoCatalog,  \* the remote catalog the version check saw
     htmlTransfers |-> 0,       \* viewer-HTML downloads attempted in this load
     htmlDone |-> FALSE,        \* downloadAndSaveHtml returned normally
     remoteChecks |-> 0,        \* loads of this session that fetched the remote catalog
     network |-> FALSE,         \* this load made a network call (makeApiCall, transport)
     attempts |-> <<>>,         \* map keys given to downloadFile by the loop of this pass
     failedUpdate |-> NoCatalog,  \* the remote catalog that a version check found changed
                                  \* and whose download branch ended in the catch
     prevFailed |-> NoCatalog,    \* failedUpdate when this load started
     reads |-> {},                \* the values this load has read from SochNetwork.isOnline
     unprobedRead |-> FALSE,      \* it has read true while the last probe had not succeeded
     rewriteCall |-> [isCapacitor |-> TRUE, failAt |-> 0],
                                  \* the last call of replaceUrlsWithLocalPaths made on its own:
                                  \* the platform, and the collection at which it threw (0: none)
     converting |-> [original |-> NoUrl, input |-> NoUrl, output |-> NoUrl, calls |-> 0]]
                                  \* convertDropboxUrl applied to a URL and then to its own
                                  \* result: the URL, the last argument, the last result

(***************************************************************************)
(* SochNetwork.checkConnectivity, in its two implementations.  Inputs:     *)
(*   navigatorOnline : navigator.onLine                                    *)
(*   status : Network.getStatus() says connected, disconnected, or throws  *)
(*   probe  : the HEAD request against the backend answers ok, answers     *)
(*            with a non-OK status, throws, or loses the race against the  *)
(*            3 second timeout (only looked at when the probe is made)     *)
(*   fatal  : the check itself throws outside the two inner try blocks     *)
(***************************************************************************)
ConnStatuses == {"connected", "disconnected", "throws"}

ProbeResults == {"ok", "notOk", "throws", "timeout"}

NetworkModules == {"storage", "part001"}

\* let capacitorOnline = navigatorOnline; try { capacitorOnline = status.connected }
capacitorOnline(navigatorOnline, status) ==
    IF status = "throws" THEN navigatorOnline ELSE status = "connected"

\* a check that probes the backend whatever the platform says
ProbeMadeAlways(navigatorOnline, status) == TRUE

\* this.isOnline = navigatorOnline || capacitorOnline: the probe is made
ProbeMade(navigatorOnline, status) ==
    navigatorOnline \/ capacitorOnline(navigatorOnline, status)

\* src/www/storage.js
checkConnectivityStorage(navigatorOnline, status, probe, fatal) ==
    IF fatal THEN FALSE
    ELSE IF ProbeMade(navigatorOnline, status) THEN probe = "ok"
    ELSE FALSE

\* src/unnamed/part_001: a probe that throws or times out leaves the
\* preliminary status, a failed check defaults to online
checkConnectivityPart001(navigatorOnline, status, probe, fatal) ==
    IF fatal THEN TRUE
    ELSE IF ProbeMade(navigatorOnline, status) THEN
        IF probe \in {"ok", "notOk"} THEN probe = "ok" ELSE TRUE
    ELSE FALSE

checkConnectivityOf(module, navigatorOnline, status, probe, fatal) ==
    IF module = "storage"
    THEN checkConnectivityStorage(navigatorOnline, status, probe, fatal)
    ELSE checkConnectivityPart001(navigatorOnline, status, probe, fatal)

\* no check is awaiting its probe and no probe has succeeded
NoProbe == [inFlight |-> FALSE, lastOk |-> FALSE]

\* no connectivity check made yet, by the network module given
NoCheckOf(module) ==
    [module |-> module, checked |-> FALSE, navigatorOnline |-> FALSE,
     status |-> "disconnected", probe |-> "ok", fatal |-> FALSE, returned |-> FALSE]

NoCheck == NoCheckOf("storage")

(***************************************************************************)
(* app.js and SochUI: the launch button and the flags of initializeApp.    *)
(***************************************************************************)
\* SochUI.updateButton(text, disabled)
Button(text, disabled) == [text |-> text, disabled |-> disabled]

\* the state after onDOMContentLoaded: SochUI.initializeState
AppIdle ==
    [pc |-> "ready",
     initializationInProgress |-> FALSE,
     isInitialized |-> FALSE,
     button |-> Button("Launch", FALSE),
     buttonShown |-> TRUE,          \* downloadBtn.style.display is not 'none'
     flipbookShown |-> FALSE,       \* flipbookContainer is displayed
     timers |-> {},                 \* pending setTimeout callbacks
     outcome |-> "none",            \* how the last initializeApp ended
     threwAt |-> "none",            \* the step whose exception ended it
     permission |-> "unknown",      \* what the last permission step met
     pipelines |-> 0,               \* calls of initializeApp between its guard and its finally
     ignored |-> 0]                 \* calls of initializeApp that returned at its guard

(***************************************************************************)
(* SochNetwork.makeApiCall (the same in storage.js and part_001).          *)
(***************************************************************************)
MaxRows == 2

\* the select parameter
Endpoints == {"json", "html_url", "html_version"}

\* what a row of the answer holds for the selected field
ApiValues == {"a", "b", "c"}

ApiRow(endpoint, value) == [field |-> endpoint, value |-> value]

\* data[0] of an empty array or of an object: undefined
Undefined == [field |-> "", value |-> "undefined"]

RowSeqs(endpoint) ==
    UNION {[1..n -> {ApiRow(endpoint, v) : v \in ApiValues}] : n \in 0..MaxRows}

\* the body of the answer: not JSON, the JSON null, a JSON object, or an
\* array of rows
ApiBodies(endpoint) ==
    {[kind |-> k, rows |-> <<>>] : k \in {"invalid", "null", "object"}}
        \cup {[kind |-> "array", rows |-> r] : r \in RowSeqs(endpoint)}

HttpStatuses == {200, 404, 500}

\* fetch rejects (no network), or it resolves with a status and a body
ApiResponses(endpoint) ==
    {[fetch |-> "rejected", status |-> 0, body |-> [kind |-> "invalid", rows |-> <<>>]]}
        \cup {[fetch |-> "resolved", status |-> s, body |-> b] :
                  s \in HttpStatuses, b \in ApiBodies(endpoint)}

\* response.ok
ResponseOk(response) == response.status \in 200..299

Threw(message) == [threw |-> TRUE, message |-> message, value |-> Undefined]

Returned(value) == [threw |-> FALSE, message |-> "", value |-> value]

\* makeApiCall: every throw inside the try is rethrown as "API request
\* failed"; otherwise data[0] is returned, whatever it is
makeApiCall(endpoint, response) ==
    IF response.fetch = "rejected" THEN Threw("API request failed")
    ELSE IF ~ResponseOk(response) THEN Threw("API request failed")
    ELSE IF response.body.kind = "invalid" THEN Threw("API request failed")
    ELSE IF response.body.kind = "null" THEN Threw("API request failed")
    ELSE IF response.body.kind = "object" THEN Returned(Undefined)
    ELSE IF response.body.rows = <<>> THEN Returned(Undefined)
    ELSE Returned(response.body.rows[1])

NoCall == [called |-> FALSE, endpoint |-> "",
           response |-> [fetch |-> "rejected", status |-> 0,
                         body |-> [kind |-> "invalid", rows |-> <<>>]],
           outcome |-> Returned(Undefined)]

(***************************************************************************)
(* SochStorage.ensureAppFolders and folderExists.                          *)
(***************************************************************************)
\* config.APP_FOLDER, then config.SUBFOLDERS in the order of the loop
FolderOrder == <<"root", "html", "json", "images", "videos">>

AppFolders == {FolderOrder[i] : i \in DOMAIN FolderOrder}

\* layouts that can exist: a subfolder lies in the root folder
Layouts == {F \in SUBSET AppFolders : F # {} => "root" \in F}

\* a check that finds nothing
folderExistsNever(path, existing) == FALSE

\* folderExists: Filesystem.stat resolves for a folder that exists
folderExists(path, existing) == path \in existing

\* the try of ensureAppFolders from position i on.  A folder found missing
\* gets a Filesystem.mkdir, which rejects with "already exists" for a folder
\* that exists (the catch swallows that and the function returns) and
\* rejects otherwise at position failAt (the catch rethrows).
RECURSIVE EnsureFrom(_, _, _, _)
EnsureFrom(i, existing, failAt, mkdirs) ==
    IF i > Len(FolderOrder)
    THEN [folders |-> existing, mkdirs |-> mkdirs, threw |-> FALSE]
    ELSE LET path == FolderOrder[i]
         IN  IF folderExists(path, existing)
             THEN EnsureFrom(i + 1, existing, failAt, mkdirs)
             ELSE IF path \in existing
             THEN [folders |-> existing, mkdirs |-> Append(mkdirs, path),
                   threw |-> FALSE]
             ELSE IF i = failAt
             THEN [folders |-> existing, mkdirs |-> Append(mkdirs, path),
                   threw |-> TRUE]
             ELSE EnsureFrom(i + 1, existing \cup {path}, failAt,
                             Append(mkdirs, path))

\* ensureAppFolders: nothing is done in browser mode
EnsureFolders(isCapacitor, existing, failAt) ==
    IF ~isCapacitor
    THEN [folders |-> existing, mkdirs |-> <<>>, threw |-> FALSE]
    ELSE EnsureFrom(1, existing, failAt, <<>>)

EnsureRecord(isCapacitor, failAt) ==
    LET r == EnsureFolders(isCapacitor, folders, failAt)
    IN  [called |-> TRUE, isCapacitor |-> isCapacitor,
         before |-> folders, files |-> <<images, videos>>,
         mkdirs |-> r.mkdirs, after |-> r.folders, threw |-> r.threw]

NoEnsure == [called |-> FALSE, isCapacitor |-> TRUE,
             before |-> {}, files |-> <<{}, {}>>,
             mkdirs |-> <<>>, after |-> {}, threw |-> FALSE]

(***************************************************************************)
(* The two downloadMediaFiles: SochMedia of part_003 and SochMedia of      *)
(* www/media.js.  The one of media.js builds its map with the file names   *)
(* of SochStorage.getFileNameFromUrl and the prefix <style_code>_ for both *)
(* product fields, gives the map key itself to downloadFile, counts no     *)
(* errors and has no cleanup step.  Step 3 of both logs the completion     *)
(* status: total processed, skipped, new files downloaded and, in          *)
(* part_003 only, download errors.                                         *)
(***************************************************************************)
MediaModules == {"part_003", "media"}

NoReportOf(module) ==
    [module |-> module, logged |-> FALSE, processed |-> 0, skipped |-> 0,
     downloaded |-> 0, hasFailed |-> FALSE, failed |-> 0]

\* the prefix media.js gives to SochStorage.getFileNameFromUrl for a field
MediaJsPrefix(f) ==
    IF f.prefix[1] = "collection_" THEN f.prefix ELSE <<f.prefix[1], "_">>

RECURSIVE ExtractFromMediaJs(_, _)
ExtractFromMediaJs(fields, map) ==
    IF fields = <<>> THEN map
    ELSE LET f == Head(fields)
             u == f.ref.url
         IN  IF Truthy(f.ref) /\ ~MapHas(map, u)
             THEN ExtractFromMediaJs(Tail(fields),
                      Append(map, [url |-> u,
                                   fileName |-> getFileNameFromUrlStorageAt(u, MediaJsPrefix(f), 0),
                                   folder |-> f.folder,
                                   directUrl |-> u]))
             ELSE ExtractFromMediaJs(Tail(fields), map)

extractUniqueMediaFilesOf(module, cat) ==
    IF module = "media" THEN ExtractFromMediaJs(MediaFields(cat), <<>>)
    ELSE extractUniqueMediaFiles(cat)

\* step 3: the completion status logged from totalFiles and the counters
completionReport(module, totalFiles, c) ==
    IF module = "media"
    THEN [module |-> module, logged |-> TRUE, processed |-> totalFiles,
          skipped |-> c.skippedCount, downloaded |-> totalFiles - c.skippedCount,
          hasFailed |-> FALSE, failed |-> 0]
    ELSE [module |-> module, logged |-> TRUE, processed |-> totalFiles,
          skipped |-> c.skippedCount,
          downloaded |-> totalFiles - c.skippedCount - c.errorCount,
          hasFailed |-> TRUE, failed |-> c.errorCount]

(***************************************************************************)
(* downloadMediaFiles, step 1: extraction.                                 *)
(***************************************************************************)
Extract ==
    /\ pc = "extract"
    /\ urlToFileMap' = extractUniqueMediaFilesOf(report.module, jsonData)
    /\ idx' = 1
    /\ counts' = NoCounts
    /\ h' = [h EXCEPT !.transport = <<>>, !.stored = {}, !.deleted = {}, !.attempts = <<>>,
                      !.cleaned = FALSE, !.passFaults = 0,
                      !.start = [images |-> images, videos |-> videos],
                      !.noList = {}, !.noDel = {}]
    /\ pc' = "download"
    /\ report' = NoReportOf(report.module)
    /\ UNCHANGED <<probing, naming, frames, lastEnsure, folders, api, net, app, build, remote, isOnline, persisted, htmlStored, images, videos,
                   downloadedUrls, ret, jsonData, flags, handed, result, errorScreen, loads,
                   sessions, passes, faults>>

(***************************************************************************)
(* downloadMediaFiles, step 2: one iteration of the loop, that is one call *)
(* of SochStorage.downloadFile(directUrl, folder, fileName):               *)
(*   - null when the URL is in downloadedUrls;                             *)
(*   - null when the file exists (the URL is then added to downloadedUrls);*)
(*   - otherwise the transport is invoked: on success the file is stored   *)
(*     and the URL added, on failure the error is counted by the caller.   *)
(***************************************************************************)
\* a stat that never finds the file
fileExistsNever(folderName, fileName) == FALSE

fileExists(folderName, fileName) == fileName \in Folder(folderName)

\* a downloadFile that never finds its URL in downloadedUrls
DownloadSkipsUrlNever(e) == FALSE

DownloadSkipsUrl(e) == e.directUrl \in downloadedUrls

\* a loop that stops at the first failed download
AfterErrorAbort(i) == Len(urlToFileMap) + 1

\* catch (err) inside the for loop: the error is counted and the loop goes
\* on with the next entry
AfterError(i) == i + 1

\* a catch that marks the URL as processed all the same
AfterFailedDownloadMarked(urls, url) == urls \cup {url}

\* catch (err) of downloadFile: the error is thrown on, the set is left alone
AfterFailedDownload(urls, url) == urls

DownloadOne ==
    /\ pc = "download"
    /\ idx <= Len(urlToFileMap)
    /\ LET e == urlToFileMap[idx]
       IN  IF DownloadSkipsUrl(e) THEN
               /\ counts' = [counts EXCEPT !.skippedCount = @ + 1, !.downloadCount = @ + 1]
               /\ h' = [h EXCEPT !.attempts = Append(@, e.url)]
               /\ idx' = idx + 1
               /\ UNCHANGED <<images, videos, downloadedUrls, faults>>
           ELSE IF fileExists(e.folder, e.fileName) THEN
               /\ downloadedUrls' = downloadedUrls \cup {e.directUrl}
               /\ counts' = [counts EXCEPT !.skippedCount = @ + 1, !.downloadCount = @ + 1]
               /\ h' = [h EXCEPT !.attempts = Append(@, e.url)]
               /\ idx' = idx + 1
               /\ UNCHANGED <<images, videos, faults>>
           ELSE
               \/ /\ images' = IF e.folder = "images" THEN images \cup {e.fileName} ELSE images
                  /\ videos' = IF e.folder = "videos" THEN videos \cup {e.fileName} ELSE videos
                  /\ downloadedUrls' = downloadedUrls \cup {e.directUrl}
                  /\ counts' = [counts EXCEPT !.downloadCount = @ + 1]
                  /\ h' = [h EXCEPT !.transport = Append(@, e.directUrl),
                                    !.stored = @ \cup {<<e.folder, e.fileName>>},
                                    !.network = TRUE,
                                    !.attempts = Append(@, e.url)]
                  /\ idx' = idx + 1
                  /\ UNCHANGED faults
               \/ /\ faults < MaxFaults
                  /\ faults' = faults + 1
                  /\ counts' = [counts EXCEPT !.errorCount = @ + 1, !.downloadCount = @ + 1]
                  /\ h' = [h EXCEPT !.transport = Append(@, e.directUrl),
                                    !.passFaults = @ + 1,
                                    !.network = TRUE,
                                    !.attempts = Append(@, e.url)]
                  /\ idx' = AfterError(idx)
                  /\ downloadedUrls' = AfterFailedDownload(downloadedUrls, e.directUrl)
                  /\ UNCHANGED <<images, videos>>
    /\ UNCHANGED <<report, probing, naming, frames, lastEnsure, folders, api, net, app, build, remote, isOnline, persisted, htmlStored, pc, ret, jsonData,
                   urlToFileMap, flags, handed, result, errorScreen, loads, sessions, passes>>

(***************************************************************************)
(* downloadMediaFiles, step 4: cleanupUnusedFiles.  Per folder: readdir    *)
(* (a failure skips the folder), then every listed file that is not active *)
(* is deleted (a failed delete is logged and the file stays).              *)
(*   noList : the folders whose readdir fails; both folders when the       *)
(*            function fails before the first listing (outer catch)        *)
(*   noDel  : the <<folder, file>> whose deleteFile fails                  *)
(***************************************************************************)
\* cleanup with the active-file test inverted
CleanFolderInverted(folderName, files, cat, noList, noDel) ==
    IF folderName \in noList THEN files
    ELSE {f \in files : f \notin ActiveFiles(cat, folderName) \/ <<folderName, f>> \in noDel}

\* a cleanup of a folder that gives up at the first delete that fails
CleanFolderGivesUp(folderName, files, cat, noList, noDel) ==
    IF folderName \in noList \/ (\E f \in files : <<folderName, f>> \in noDel) THEN files
    ELSE {f \in files : f \in ActiveFiles(cat, folderName)}

CleanFolder(folderName, files, cat, noList, noDel) ==
    IF folderName \in noList THEN files
    ELSE {f \in files : f \in ActiveFiles(cat, folderName) \/ <<folderName, f>> \in noDel}

Unused(cat) ==
    {<<"images", f>> : f \in images \ ActiveFiles(cat, "images")}
        \cup {<<"videos", f>> : f \in videos \ ActiveFiles(cat, "videos")}

CleanupFaults ==
    {[noList |-> {}, noDel |-> {}]}
        \cup (IF faults < MaxFaults
              THEN {[noList |-> {f}, noDel |-> {}] : f \in {"images", "videos"}}
                       \cup {[noList |-> {}, noDel |-> {d}] : d \in Unused(jsonData)}
                       \cup {[noList |-> {"images", "videos"}, noDel |-> {}]}
              ELSE {})

\* a cleanup that does not wait for the download loop
DownloadsDoneEarly == TRUE

\* the for loop over urlToFileMap has ended
DownloadsDone == idx > Len(urlToFileMap)

cleanupUnusedFiles ==
    /\ pc = "download"
    /\ DownloadsDone
    /\ report.module = "part_003"
    /\ report' = completionReport(report.module, Len(urlToFileMap), counts)
    /\ \E flt \in CleanupFaults :
          LET n == IF flt.noList = {} /\ flt.noDel = {} THEN 0 ELSE 1
              newImages == CleanFolder("images", images, jsonData, flt.noList, flt.noDel)
              newVideos == CleanFolder("videos", videos, jsonData, flt.noList, flt.noDel)
          IN  /\ images' = newImages
              /\ videos' = newVideos
              /\ faults' = faults + n
              /\ h' = [h EXCEPT !.before = [images |-> images, videos |-> videos],
                                !.deleted = {<<"images", f>> : f \in images \ newImages}
                                               \cup {<<"videos", f>> : f \in videos \ newVideos},
                                !.cleaned = TRUE,
                                !.noList = flt.noList,
                                !.noDel = flt.noDel,
                                !.passFaults = @ + n]
    /\ pc' = ret
    /\ UNCHANGED <<probing, naming, frames, lastEnsure, folders, api, net, app, build, remote, isOnline, persisted, htmlStored, downloadedUrls, ret,
                   jsonData, urlToFileMap, idx, counts, flags, handed, result, errorScreen, loads,
                   sessions, passes>>

(***************************************************************************)
(* The synchronisation pass on its own: a catalog is synchronised against  *)
(* a store that holds leftovers of earlier sessions, then rewritten, and    *)
(* the pass is repeated on the same catalog.                               *)
(***************************************************************************)
StaleImage == <<"old", ".", "jpg">>

StaleVideo == <<"old", ".", "mp4">>

InitialImages == {StaleImage, getFileNameFromUrl(UrlA, ImagePrefix("A1"))}

InitialVideos == {StaleVideo}

InitPass ==
    /\ build = "production"
    /\ jsonData \in CatalogSet \cup SharedProductCatalogs
    /\ remote = jsonData
    /\ persisted = jsonData
    /\ isOnline = TRUE
    /\ htmlStored = TRUE
    /\ images \in SUBSET InitialImages
    /\ videos \in SUBSET InitialVideos
    /\ downloadedUrls = {}
    /\ pc = "idle"
    /\ ret = "rewrite"
    /\ urlToFileMap = <<>>
    /\ idx = 1
    /\ counts = NoCounts
    /\ flags = NoFlags
    /\ handed = NoCatalog
    /\ result = "none"
    /\ loads = 0
    /\ sessions = 1
    /\ passes = 0
    /\ faults = 0
    /\ h = NoHistory
    /\ errorScreen = "none"
    /\ api = NoCall
    /\ folders = AppFolders
    /\ lastEnsure = NoEnsure
    /\ frames = <<>>
    /\ naming = NoNaming
    /\ probing = NoProbe
    /\ report = NoReportOf("part_003")
    /\ net = NoCheck
    /\ app = AppIdle

PassStart ==
    /\ pc = "idle"
    /\ passes < MaxPasses
    /\ pc' = "extract"
    /\ UNCHANGED <<report, probing, naming, frames, lastEnsure, folders, api, net, app, build, remote, isOnline, persisted, htmlStored, images, videos,
                   downloadedUrls, ret, jsonData, urlToFileMap, idx, counts, flags,
                   handed, result, errorScreen, loads, sessions, passes, faults, h>>

PassRewrite ==
    /\ pc = "rewrite"
    /\ \E uriOk \in BOOLEAN :
          /\ uriOk \/ faults < MaxFaults
          /\ faults' = IF uriOk THEN faults ELSE faults + 1
          /\ handed' = replaceUrlsWithLocalPaths(jsonData, uriOk)
          /\ h' = [h EXCEPT !.lookups = LookupsOf(MediaFields(jsonData)),
                            !.input = jsonData,
                            !.uriOk = uriOk]
    /\ pc' = "idle"
    /\ passes' = passes + 1
    /\ UNCHANGED <<report, probing, naming, frames, lastEnsure, folders, api, net, app, build, remote, isOnline, persisted, htmlStored, images, videos,
                   downloadedUrls, ret, jsonData, urlToFileMap, idx, counts, flags,
                   result, errorScreen, loads, sessions>>

NextPass == PassStart \/ Extract \/ DownloadOne \/ cleanupUnusedFiles \/ PassRewrite

SpecPass == InitPass /\ [][NextPass]_vars

(***************************************************************************)
(* downloadMediaFiles on its own, of either module: the function is called *)
(* again and again on the same catalog against a store that holds          *)
(* leftovers of earlier sessions.                                          *)
(***************************************************************************)
\* media.js: after the loop the completion status is logged and the
\* function returns; there is no cleanup
downloadMediaFilesEnd ==
    /\ pc = "download"
    /\ DownloadsDone
    /\ report.module = "media"
    /\ report' = completionReport(report.module, Len(urlToFileMap), counts)
    /\ pc' = ret
    /\ UNCHANGED <<probing, naming, frames, lastEnsure, folders, api, net, app, build, remote,
                   isOnline, persisted, htmlStored, images, videos, downloadedUrls, ret,
                   jsonData, urlToFileMap, idx, counts, flags, handed, result, errorScreen,
                   loads, sessions, passes, faults, h>>

InitReport ==
    /\ build = "production"
    /\ jsonData \in CatalogSet
    /\ remote = jsonData
    /\ persisted = jsonData
    /\ isOnline = TRUE
    /\ htmlStored = TRUE
    /\ report \in {NoReportOf(module) : module \in MediaModules}
    /\ images \in SUBSET {StaleImage,
                          extractUniqueMediaFilesOf(report.module,
                              Catalog("v1", <<Collection("summer", UrlA, <<>>)>>))[1].fileName}
    /\ videos \in SUBSET InitialVideos
    /\ downloadedUrls = {}
    /\ pc = "idle"
    /\ ret = "idle"
    /\ urlToFileMap = <<>>
    /\ idx = 1
    /\ counts = NoCounts
    /\ flags = NoFlags
    /\ handed = NoCatalog
    /\ result = "none"
    /\ loads = 0
    /\ sessions = 1
    /\ passes = 0
    /\ faults = 0
    /\ h = NoHistory
    /\ errorScreen = "none"
    /\ api = NoCall
    /\ folders = AppFolders
    /\ lastEnsure = NoEnsure
    /\ frames = <<>>
    /\ naming = NoNaming
    /\ probing = NoProbe
    /\ net = NoCheck
    /\ app = AppIdle

NextReport ==
    PassStart \/ Extract \/ DownloadOne \/ cleanupUnusedFiles \/ downloadMediaFilesEnd

SpecReport == InitReport /\ [][NextReport]_vars

(***************************************************************************)
(* replaceUrlsWithLocalPaths on its own: it is called on a catalog, and    *)
(* called again on the object the first call was given.                    *)
(***************************************************************************)
InitRewrite ==
    /\ build = "production"
    /\ jsonData \in CatalogSet \cup SharedProductCatalogs
    /\ remote = jsonData
    /\ persisted = jsonData
    /\ isOnline = TRUE
    /\ htmlStored = TRUE
    /\ images = {}
    /\ videos = {}
    /\ downloadedUrls = {}
    /\ pc = "idle"
    /\ ret = "rewrite"
    /\ urlToFileMap = <<>>
    /\ idx = 1
    /\ counts = NoCounts
    /\ flags = NoFlags
    /\ handed = NoCatalog
    /\ result = "none"
    /\ loads = 0
    /\ sessions = 1
    /\ passes = 0
    /\ faults = 0
    /\ h = NoHistory
    /\ errorScreen = "none"
    /\ api = NoCall
    /\ folders = AppFolders
    /\ lastEnsure = NoEnsure
    /\ frames = <<>>
    /\ naming = NoNaming
    /\ probing = NoProbe
    /\ report = NoReportOf("part_003")
    /\ net = NoCheck
    /\ app = AppIdle

replaceUrlsWithLocalPathsCall ==
    /\ pc = "idle"
    /\ passes < MaxPasses
    /\ \E isCapacitor, uriOk \in BOOLEAN, failAt \in 0..Len(jsonData.collections) :
          LET n == IF uriOk /\ failAt = 0 THEN 0 ELSE 1
              objects == replaceUrlsWithLocalPathsObjects(jsonData, isCapacitor, uriOk, failAt)
          IN  /\ faults + n <= MaxFaults
              /\ isCapacitor \/ (uriOk /\ failAt = 0)
              /\ faults' = faults + n
              /\ jsonData' = objects.jsonData
              /\ handed' = objects.returned
              /\ h' = [h EXCEPT !.lookups = LookupsOf(MediaFields(jsonData)),
                                !.input = jsonData,
                                !.uriOk = uriOk,
                                !.rewriteCall = [isCapacitor |-> isCapacitor, failAt |-> failAt]]
    /\ passes' = passes + 1
    /\ UNCHANGED <<report, probing, naming, frames, lastEnsure, folders, api, net, app, build,
                   remote, isOnline, persisted, htmlStored, images, videos, downloadedUrls,
                   pc, ret, urlToFileMap, idx, counts, flags, result, errorScreen, loads,
                   sessions>>

NextRewrite == replaceUrlsWithLocalPathsCall

SpecRewrite == InitRewrite /\ [][NextRewrite]_vars

(***************************************************************************)
(* convertDropboxUrl on its own: it is applied to a URL, and then to what  *)
(* it returned.  The URLs are https://<host>/clip.mp4 with up to MaxParams *)
(* query parameters, the host being Dropbox's or another.                  *)
(***************************************************************************)
MaxParams == 3

MaxConversions == 2

QueryParams == {"dl=0", "dl=1", "rlkey=k"}

QuerySeqs == UNION {[1..n -> QueryParams] : n \in 0..MaxParams}

ConvertUrls ==
    {Url(host, <<Seg("clip", "mp4")>>, q) : host \in {"host", "dropbox.com"}, q \in QuerySeqs}

InitConvert ==
    /\ build = "production"
    /\ jsonData = NoCatalog
    /\ remote = NoCatalog
    /\ persisted = NoCatalog
    /\ isOnline = FALSE
    /\ htmlStored = FALSE
    /\ images = {}
    /\ videos = {}
    /\ downloadedUrls = {}
    /\ pc = "idle"
    /\ ret = "idle"
    /\ urlToFileMap = <<>>
    /\ idx = 1
    /\ counts = NoCounts
    /\ flags = NoFlags
    /\ handed = NoCatalog
    /\ result = "none"
    /\ loads = 0
    /\ sessions = 1
    /\ passes = 0
    /\ faults = 0
    /\ \E u \in ConvertUrls :
          h = [NoHistory EXCEPT !.converting =
                  [original |-> u, input |-> u, output |-> u, calls |-> 0]]
    /\ errorScreen = "none"
    /\ api = NoCall
    /\ folders = AppFolders
    /\ lastEnsure = NoEnsure
    /\ frames = <<>>
    /\ naming = NoNaming
    /\ probing = NoProbe
    /\ report = NoReportOf("part_003")
    /\ net = NoCheck
    /\ app = AppIdle

convertDropboxUrlCall ==
    /\ h.converting.calls < MaxConversions
    /\ h' = [h EXCEPT !.converting =
                 [original |-> @.original,
                  input |-> @.output,
                  output |-> convertDropboxUrl(@.output),
                  calls |-> @.calls + 1]]
    /\ UNCHANGED <<report, probing, naming, frames, lastEnsure, folders, api, net, app, build,
                   remote, isOnline, persisted, htmlStored, images, videos, downloadedUrls,
                   pc, ret, jsonData, urlToFileMap, idx, counts, flags, handed, result,
                   errorScreen, loads, sessions, passes, faults>>

NextConvert == convertDropboxUrlCall

SpecConvert == InitConvert /\ [][NextConvert]_vars

(***************************************************************************)
(* The application: sessions, connectivity, the backend, and loadFlipbook. *)
(***************************************************************************)
\* the catalogs the backend serves over time
CatV1 == Catalog("v1", <<Collection("summer", NoUrl, <<Product("A1", UrlA, NoUrl)>>)>>)

\* A1 removed, B2 added
CatV2 == Catalog("v2", <<Collection("summer", NoUrl, <<Product("B2", UrlB, UrlV)>>)>>)

\* the image of A1 re-used for B2
CatV3 == Catalog("v3", <<Collection("summer", NoUrl, <<Product("B2", UrlA, NoUrl)>>)>>)

\* content changed, version marker not
CatV1b == Catalog("v1", <<Collection("summer", NoUrl, <<Product("A1", UrlB, NoUrl)>>)>>)

RemoteCatalogs == {CatV1, CatV2, CatV3, CatV1b}

\* the builds whose loadFlipbook has the control flow of src/unnamed/part_000:
\* part_000 itself and the on-screen-debugging version of flipbook.js
LegacyBuilds == {"part000", "debug"}

Init ==
    /\ build \in {"production"} \cup LegacyBuilds
    /\ remote \in RemoteCatalogs
    /\ isOnline = FALSE
    /\ persisted = NoCatalog
    /\ htmlStored = FALSE
    /\ images = {}
    /\ videos = {}
    /\ downloadedUrls = {}
    /\ pc = "idle"
    /\ ret = "idle"
    /\ jsonData = NoCatalog
    /\ urlToFileMap = <<>>
    /\ idx = 1
    /\ counts = NoCounts
    /\ flags = NoFlags
    /\ handed = NoCatalog
    /\ result = "none"
    /\ loads = 0
    /\ sessions = 1
    /\ passes = 0
    /\ faults = 0
    /\ h = NoHistory
    /\ errorScreen = "none"
    /\ api = NoCall
    /\ folders = AppFolders
    /\ lastEnsure = NoEnsure
    /\ frames = <<>>
    /\ naming = NoNaming
    /\ probing = NoProbe
    /\ report = NoReportOf("part_003")
    /\ net = NoCheck
    /\ app = AppIdle

\* the backend publishes another catalog.  The catalog is read only by the
\* steps that leave "idle", "version" and "fetch"; a change at any other
\* point of a load is seen as a change at the next of these, and a change
\* at "version" as one made before the load started.
RemoteChange ==
    /\ pc \in {"idle", "fetch"}
    /\ \E c \in RemoteCatalogs \ {remote} : remote' = c
    /\ UNCHANGED <<report, probing, naming, frames, lastEnsure, folders, api, net, app, build, isOnline, persisted, htmlStored, images, videos,
                   downloadedUrls, pc, ret, jsonData, urlToFileMap, idx, counts, flags,
                   handed, result, errorScreen, loads, sessions, passes, faults, h>>

\* the app is closed and started again: module state is constructed anew,
\* the files stay
NewSession ==
    /\ pc = "idle"
    /\ loads > 0
    /\ sessions < MaxSessions
    /\ sessions' = sessions + 1
    /\ downloadedUrls' = {}
    /\ isOnline' = FALSE
    /\ probing' = NoProbe
    /\ handed' = NoCatalog
    /\ result' = "none" /\ errorScreen' = "none"
    /\ h' = [NoHistory EXCEPT !.persistedAtStart = persisted,
                              !.failedUpdate = h.failedUpdate]
    /\ frames' = <<>>
    /\ report' = NoReportOf(report.module)
    /\ UNCHANGED <<naming, lastEnsure, folders, api, net, app, build, remote, persisted, htmlStored, images, videos, pc, ret,
                   jsonData, urlToFileMap, idx, counts, flags, loads, passes, faults>>

\* SochNetwork.checkConnectivity sets the flag to what it found
checkConnectivity ==
    /\ pc = "idle"
    /\ \E online \in {checkConnectivityStorage(navigatorOnline, status, probe, fatal) :
                         navigatorOnline \in BOOLEAN, status \in ConnStatuses,
                         probe \in ProbeResults, fatal \in BOOLEAN} :
          /\ online # isOnline
          /\ isOnline' = online
          /\ probing' = [inFlight |-> FALSE, lastOk |-> online]
    /\ UNCHANGED <<report, naming, frames, lastEnsure, folders, api, net, app, build, remote, persisted, htmlStored, images, videos,
                   downloadedUrls, pc, ret, jsonData, urlToFileMap, idx, counts, flags,
                   handed, result, errorScreen, loads, sessions, passes, faults, h>>

\* json/data.json is deleted or damaged while the app is closed (the
\* Documents directory is the user's): Filesystem.readFile or JSON.parse
\* then throws inside readLocalJsonData, which returns null as for a file
\* never written
CatalogLost ==
    /\ pc = "idle"
    /\ result = "none"
    /\ persisted # NoCatalog
    /\ faults < MaxFaults
    /\ faults' = faults + 1
    /\ persisted' = NoCatalog
    /\ UNCHANGED <<report, probing, naming, frames, lastEnsure, folders, api, net, app, build, remote, isOnline, htmlStored, images, videos,
                   downloadedUrls, pc, ret, jsonData, urlToFileMap, idx, counts, flags,
                   handed, result, errorScreen, loads, sessions, passes, h>>

\* SochStorage.readLocalJsonData / checkLocalJsonExists / checkLocalHtmlExists
readLocalJsonData == persisted

\* a check that takes the not-found signal for a catalog
checkLocalJsonExistsAlways == TRUE

checkLocalJsonExists == readLocalJsonData # NoCatalog

checkLocalHtmlExists == htmlStored

\* a save of the catalog in its rewritten form
saveJsonDataRewritten(data) == replaceUrlsWithLocalPaths(data, TRUE)

\* SochStorage.saveJsonData: the content written to json/data.json is
\* JSON.stringify of its argument
saveJsonData(data) == data

\* SochStorage.getCurrentJsonVersion: the version field of json/data.json
getCurrentJsonVersion == persisted.version

\* a connectivity test that never says offline
IsOfflineNever == FALSE

\* !window.SochNetwork.isOnline
IsOffline == ~isOnline

\* an error screen with the same hint whatever the connectivity flag
showErrorMessageGeneric == "check connection and retry"

\* SochFlipbook.showErrorMessage: the hint under the error details
showErrorMessage == IF isOnline THEN "check connection and retry" ELSE "first-time setup"

(***************************************************************************)
(* #flipbookContainer: the iframe that step 6 of the production            *)
(* loadFlipbook writes into it, the load events of that iframe and the     *)
(* 500 ms timer that each of them starts.  Writing the container again     *)
(* (a new iframe, or the markup of showErrorMessage) takes the iframe that *)
(* was there out of the document: it has no contentWindow any more.        *)
(***************************************************************************)
MaxSignals == 2

Message(collections) == [type |-> "loadCollections", collections |-> collections]

\* container.innerHTML = `<iframe ...>` and iframe.onload = ...: the handler
\* keeps processedJsonData of its own load
NewFrame(processedJsonData) ==
    [collections |-> processedJsonData.collections,
     attached |-> TRUE,
     signals |-> 0,
     timers |-> 0,
     inbox |-> <<>>,
     failed |-> 0]

\* container.innerHTML is written again
Detach(fs) == [k \in DOMAIN fs |-> [fs[k] EXCEPT !.attached = FALSE]]

\* a step of the load that may end in showErrorMessage
FramesAfterStep == IF errorScreen' # "none" THEN Detach(frames) ELSE frames

\* the catch at the end of loadFlipbook: error screen, return false
LoadFails ==
    /\ pc' = "idle"
    /\ result' = "false"
    /\ handed' = NoCatalog
    /\ errorScreen' = showErrorMessage

LoadHistory ==
    [NoHistory EXCEPT !.persistedAtStart = persisted,
                      !.warm = checkLocalJsonExists /\ checkLocalHtmlExists,
                      !.online = isOnline,
                      !.remoteChecks = h.remoteChecks,
                      !.failedUpdate = h.failedUpdate,
                      !.prevFailed = h.failedUpdate,
                      !.reads = {isOnline},
                      !.unprobedRead = isOnline /\ ~probing.lastOk]

(***************************************************************************)
(* loadFlipbook, production version: steps 1 and 2 up to the version       *)
(* check.                                                                  *)
(***************************************************************************)
ProdLoadStart ==
    /\ build = "production"
    /\ pc = "idle"
    /\ loads < MaxLoads
    /\ loads' = loads + 1
    /\ h' = LoadHistory
    /\ LET hasLocalJson == checkLocalJsonExists
           hasLocalHtml == checkLocalHtmlExists
       IN  /\ flags' = [NoFlags EXCEPT !.hasLocalJson = hasLocalJson,
                                       !.hasLocalHtml = hasLocalHtml,
                                       !.needsDownload =
                                           ~IsOffline /\ ~(hasLocalJson /\ hasLocalHtml)]
           /\ IF IsOffline THEN
                  IF hasLocalJson /\ hasLocalHtml
                  THEN pc' = "render" /\ result' = "none" /\ errorScreen' = "none" /\ handed' = NoCatalog
                  ELSE LoadFails
              ELSE
                  /\ pc' = IF hasLocalJson /\ hasLocalHtml THEN "version" ELSE "fetch"
                  /\ result' = "none" /\ errorScreen' = "none"
                  /\ handed' = NoCatalog
    /\ UNCHANGED <<report, probing, naming, lastEnsure, folders, api, net, app, build, remote, isOnline, persisted, htmlStored, images, videos,
                   downloadedUrls, ret, jsonData, urlToFileMap, idx, counts,
                   sessions, passes, faults>>
    /\ frames' = FramesAfterStep

\* a comparison that never sees an update
SameVersionAlways(localVersion, remoteVersion) == TRUE

\* localVersion === remoteVersion
SameVersion(localVersion, remoteVersion) == localVersion = remoteVersion

\* the version check: makeApiCall('json') and the comparison of the version
\* fields; a failed call falls back to the local content
ProdVersionCheck ==
    /\ pc = "version"
    /\ \/ /\ h' = [h EXCEPT !.versionChecked = TRUE,
                            !.remoteSeen = remote,
                            !.remoteChecks = @ + 1,
                            !.network = TRUE]
          /\ IF SameVersion(getCurrentJsonVersion, remote.version)
             THEN pc' = "render" /\ UNCHANGED flags
             ELSE pc' = "fetch" /\ flags' = [flags EXCEPT !.needsDownload = TRUE]
          /\ UNCHANGED faults
       \/ /\ faults < MaxFaults
          /\ faults' = faults + 1
          /\ h' = [h EXCEPT !.remoteChecks = @ + 1, !.network = TRUE]
          /\ pc' = "render"
          /\ UNCHANGED flags
    /\ UNCHANGED <<report, probing, naming, frames, lastEnsure, folders, api, net, app, build, remote, isOnline, persisted, htmlStored, images, videos,
                   downloadedUrls, ret, jsonData, urlToFileMap, idx, counts,
                   handed, result, errorScreen, loads, sessions, passes>>

\* catch (downloadErr): fall back to the local content if there was any
ProdDownloadCatch ==
    IF flags.hasLocalJson /\ flags.hasLocalHtml
    THEN pc' = "render" /\ UNCHANGED <<result, errorScreen, handed>>
    ELSE LoadFails

\* the download branch: makeApiCall('json'), then saveJsonData, then the
\* media pass
ProdFetch ==
    /\ pc = "fetch"
    /\ \/ /\ jsonData' = remote
          /\ persisted' = saveJsonData(remote)
          /\ h' = [h EXCEPT !.network = TRUE]
          /\ pc' = "extract"
          /\ ret' = "html"
          /\ UNCHANGED <<faults, result, errorScreen, handed>>
       \/ /\ faults < MaxFaults
          /\ faults' = faults + 1
          /\ h' = [h EXCEPT !.network = TRUE,
                            !.failedUpdate = IF h.versionChecked THEN h.remoteSeen
                                             ELSE h.failedUpdate]
          /\ ProdDownloadCatch
          /\ UNCHANGED <<jsonData, persisted, ret>>
    /\ UNCHANGED <<report, probing, naming, lastEnsure, folders, api, net, app, build, remote, isOnline, htmlStored, images, videos,
                   downloadedUrls, urlToFileMap, idx, counts, flags, loads,
                   sessions, passes>>
    /\ frames' = FramesAfterStep

\* window.SochMedia.processHtmlAfterDownload is called by the production
\* downloadAndSaveHtml but no SochMedia of the repository defines it: the call
\* throws a TypeError after the HTML file has been written
processHtmlAfterDownloadDefined == FALSE

\* downloadAndSaveHtml of the production version, then the end of the
\* download branch
ProdHtml ==
    /\ pc = "html"
    /\ \/ /\ htmlStored' = TRUE
          /\ h' = [h EXCEPT !.htmlTransfers = @ + 1,
                            !.htmlDone = processHtmlAfterDownloadDefined,
                            !.network = TRUE,
                            !.failedUpdate =
                                IF processHtmlAfterDownloadDefined THEN NoCatalog
                                ELSE IF h.versionChecked THEN jsonData
                                ELSE h.failedUpdate]
          /\ IF processHtmlAfterDownloadDefined
             THEN pc' = "render" /\ UNCHANGED <<result, errorScreen, handed>>
             ELSE ProdDownloadCatch
          /\ UNCHANGED faults
       \/ /\ faults < MaxFaults
          /\ faults' = faults + 1
          /\ h' = [h EXCEPT !.htmlTransfers = @ + 1, !.network = TRUE,
                            !.failedUpdate = IF h.versionChecked THEN jsonData
                                             ELSE h.failedUpdate]
          /\ ProdDownloadCatch
          /\ UNCHANGED htmlStored
    /\ UNCHANGED <<report, probing, naming, lastEnsure, folders, api, net, app, build, remote, isOnline, persisted, images, videos,
                   downloadedUrls, ret, jsonData, urlToFileMap, idx, counts, flags,
                   loads, sessions, passes>>
    /\ frames' = FramesAfterStep

(***************************************************************************)
(* SochFlipbook.processJsonForBlobs: only fields that start with file://   *)
(* are converted, to a blob URL when the file can be read.                 *)
(***************************************************************************)
BlobUrl(ref) == [ref EXCEPT !.scheme = "blob"]

BlobField(ref) ==
    IF ref.scheme = "file" /\ ref.name \in Folder(ref.folder) THEN BlobUrl(ref) ELSE ref

processJsonForBlobs(cat) ==
    [cat EXCEPT !.collections =
        [c \in DOMAIN cat.collections |->
            LET col == cat.collections[c]
            IN  [col EXCEPT
                   !.collection_image_url = BlobField(col.collection_image_url),
                   !.products =
                       [p \in DOMAIN col.products |->
                           LET prod == col.products[p]
                           IN  [prod EXCEPT !.image_url = BlobField(prod.image_url),
                                            !.video = BlobField(prod.video)]]]]]

\* steps 3 to 6 of the production loadFlipbook: final checks, read the
\* stored catalog, processJsonForBlobs, hand it to the viewer
ProdRender ==
    /\ pc = "render"
    /\ IF ~checkLocalHtmlExists \/ ~checkLocalJsonExists THEN
           /\ LoadFails
           /\ frames' = Detach(frames)
           /\ UNCHANGED <<jsonData, h>>
       ELSE
           /\ jsonData' = readLocalJsonData
           /\ handed' = processJsonForBlobs(readLocalJsonData)
           /\ h' = [h EXCEPT !.input = readLocalJsonData]
           /\ frames' = Append(Detach(frames), NewFrame(handed'))
           /\ result' = "true" /\ errorScreen' = "none"
           /\ pc' = "idle"
    /\ UNCHANGED <<report, probing, naming, lastEnsure, folders, api, net, app, build, remote, isOnline, persisted, htmlStored, images, videos,
                   downloadedUrls, ret, urlToFileMap, idx, counts, flags, loads,
                   sessions, passes, faults>>

(***************************************************************************)
(* loadFlipbook of src/unnamed/part_000.                                   *)
(***************************************************************************)
\* step 1: get the catalog (fresh when online, else the stored one)
LegacyLoadStart ==
    /\ build \in LegacyBuilds
    /\ pc = "idle"
    /\ loads < MaxLoads
    /\ loads' = loads + 1
    /\ LET local == readLocalJsonData
           useLocal ==
               /\ flags' = [NoFlags EXCEPT !.useLocalData = TRUE]
               /\ IF local # NoCatalog
                  THEN jsonData' = local /\ pc' = "lhtml" /\ result' = "none" /\ errorScreen' = "none"
                           /\ handed' = NoCatalog
                  ELSE LoadFails /\ UNCHANGED jsonData
       IN  IF ~IsOffline THEN
               \/ /\ jsonData' = remote
                  /\ persisted' = saveJsonData(remote)
                  /\ flags' = NoFlags
                  /\ pc' = "lhtml"
                  /\ result' = "none" /\ errorScreen' = "none"
                  /\ handed' = NoCatalog
                  /\ h' = [LoadHistory EXCEPT !.remoteChecks = @ + 1, !.remoteSeen = remote,
                                              !.network = TRUE]
                  /\ UNCHANGED faults
               \/ /\ faults < MaxFaults
                  /\ faults' = faults + 1
                  /\ useLocal
                  /\ h' = [LoadHistory EXCEPT !.remoteChecks = @ + 1, !.network = TRUE]
                  /\ UNCHANGED persisted
           ELSE
               /\ useLocal
               /\ h' = LoadHistory
               /\ UNCHANGED <<persisted, faults>>
    /\ UNCHANGED <<report, probing, naming, frames, lastEnsure, folders, api, net, app, build, remote, isOnline, htmlStored, images, videos,
                   downloadedUrls, ret, urlToFileMap, idx, counts, sessions, passes>>

\* an HTML download that is tried whatever the connectivity flag says
MayDownloadHtmlAlways == TRUE

\* !htmlExists && window.SochNetwork.isOnline
MayDownloadHtml == isOnline

\* steps 2 and 3: the viewer HTML is downloaded when it is not stored, then
\* the media pass runs when online with fresh data
LegacyHtml ==
    /\ pc = "lhtml"
    /\ LET goOn == /\ pc' = IF isOnline /\ ~flags.useLocalData THEN "extract" ELSE "lrender"
                   /\ ret' = "lrender"
                   /\ UNCHANGED <<result, errorScreen, handed>>
           seen == [h EXCEPT !.reads = @ \cup {isOnline},
                             !.unprobedRead = @ \/ (isOnline /\ ~probing.lastOk)]
       IN  IF checkLocalHtmlExists THEN
               goOn /\ h' = seen /\ UNCHANGED <<htmlStored, faults>>
           ELSE IF MayDownloadHtml THEN
               \/ /\ htmlStored' = TRUE
                  /\ h' = [seen EXCEPT !.htmlTransfers = @ + 1, !.htmlDone = TRUE,
                                       !.network = TRUE]
                  /\ goOn
                  /\ UNCHANGED faults
               \/ /\ faults < MaxFaults
                  /\ faults' = faults + 1
                  /\ h' = [seen EXCEPT !.htmlTransfers = @ + 1, !.network = TRUE]
                  /\ LoadFails
                  /\ UNCHANGED <<htmlStored, ret>>
           ELSE
               LoadFails /\ h' = seen /\ UNCHANGED <<htmlStored, faults, ret>>
    /\ UNCHANGED <<report, probing, naming, frames, lastEnsure, folders, api, net, app, build, remote, isOnline, persisted, images, videos,
                   downloadedUrls, jsonData, urlToFileMap, idx, counts, flags,
                   loads, sessions, passes>>

\* steps 4 to 8: replaceUrlsWithLocalPaths, inject into the HTML, render
LegacyRender ==
    /\ pc = "lrender"
    /\ \E uriOk \in BOOLEAN :
          /\ uriOk \/ faults < MaxFaults
          /\ faults' = IF uriOk THEN faults ELSE faults + 1
          /\ handed' = replaceUrlsWithLocalPaths(jsonData, uriOk)
          /\ h' = [h EXCEPT !.lookups = LookupsOf(MediaFields(jsonData)),
                            !.input = jsonData,
                            !.uriOk = uriOk]
    /\ result' = "true" /\ errorScreen' = "none"
    /\ pc' = "idle"
    /\ UNCHANGED <<report, probing, naming, frames, lastEnsure, folders, api, net, app, build, remote, isOnline, persisted, htmlStored, images, videos,
                   downloadedUrls, ret, jsonData, urlToFileMap, idx, counts, flags,
                   loads, sessions, passes>>

Next ==
    \/ RemoteChange
    \/ NewSession
    \/ CatalogLost
    \/ checkConnectivity
    \/ ProdLoadStart
    \/ ProdVersionCheck
    \/ ProdFetch
    \/ ProdHtml
    \/ ProdRender
    \/ LegacyLoadStart
    \/ LegacyHtml
    \/ LegacyRender
    \/ Extract
    \/ DownloadOne
    \/ cleanupUnusedFiles

Spec == Init /\ [][Next]_vars

\* the steps of a running loadFlipbook: each is an awaited call that settles
\* (resolves or rejects), so a load that has a step to take takes it
LoadStep ==
    \/ ProdVersionCheck
    \/ ProdFetch
    \/ ProdHtml
    \/ ProdRender
    \/ LegacyHtml
    \/ LegacyRender
    \/ Extract
    \/ DownloadOne
    \/ cleanupUnusedFiles

\* one app session: the loads of a session, the server's catalog and the
\* connectivity flag changing between and during them
NextLive ==
    \/ RemoteChange
    \/ checkConnectivity
    \/ ProdLoadStart
    \/ LegacyLoadStart
    \/ LoadStep

SpecLive == Init /\ [][NextLive]_vars /\ WF_vars(LoadStep)

(***************************************************************************)
(* The hand-off to the viewer: the loads of one session of the production  *)
(* build, with the load events of the iframes and their timers running     *)
(* beside them.                                                            *)
(***************************************************************************)
frameVars == <<report, probing, naming, lastEnsure, folders, api, net, app, build, remote, isOnline, persisted,
               htmlStored, images, videos, downloadedUrls, pc, ret, jsonData,
               urlToFileMap, idx, counts, flags, handed, result, loads, sessions,
               passes, faults, h, errorScreen>>

\* the load event of an iframe that is in the document: iframe.onload
\* starts the 500 ms timer
iframeOnload ==
    /\ \E k \in DOMAIN frames :
          /\ frames[k].attached
          /\ frames[k].signals < MaxSignals
          /\ frames' = [frames EXCEPT ![k].signals = @ + 1, ![k].timers = @ + 1]
    /\ UNCHANGED frameVars

\* the timer fires: iframe.contentWindow.postMessage(...); contentWindow
\* is null when the iframe has left the document, and the callback throws
postTimer ==
    /\ \E k \in DOMAIN frames :
          /\ frames[k].timers > 0
          /\ frames' = IF frames[k].attached
                        THEN [frames EXCEPT ![k].timers = @ - 1,
                                            ![k].inbox = Append(@, Message(frames[k].collections))]
                        ELSE [frames EXCEPT ![k].timers = @ - 1,
                                            ![k].failed = @ + 1]
    /\ UNCHANGED frameVars

\* a device on its first launch, or one that an earlier session left with
\* the catalog and the viewer HTML stored
InitFrame ==
    /\ build = "production"
    /\ remote \in RemoteCatalogs
    /\ isOnline = FALSE
    /\ persisted \in {NoCatalog} \cup {saveJsonData(cat) : cat \in RemoteCatalogs}
    /\ htmlStored = (persisted # NoCatalog)
    /\ images = {}
    /\ videos = {}
    /\ downloadedUrls = {}
    /\ pc = "idle"
    /\ ret = "idle"
    /\ jsonData = NoCatalog
    /\ urlToFileMap = <<>>
    /\ idx = 1
    /\ counts = NoCounts
    /\ flags = NoFlags
    /\ handed = NoCatalog
    /\ result = "none"
    /\ loads = 0
    /\ sessions = 1
    /\ passes = 0
    /\ faults = 0
    /\ h = [NoHistory EXCEPT !.persistedAtStart = persisted]
    /\ errorScreen = "none"
    /\ api = NoCall
    /\ folders = AppFolders
    /\ lastEnsure = NoEnsure
    /\ frames = <<>>
    /\ naming = NoNaming
    /\ probing = NoProbe
    /\ report = NoReportOf("part_003")
    /\ net = NoCheck
    /\ app = AppIdle

NextFrame ==
    \/ checkConnectivity
    \/ ProdLoadStart
    \/ ProdVersionCheck
    \/ ProdFetch
    \/ ProdHtml
    \/ ProdRender
    \/ Extract
    \/ DownloadOne
    \/ cleanupUnusedFiles
    \/ iframeOnload
    \/ postTimer

SpecFrame == InitFrame /\ [][NextFrame]_vars

(***************************************************************************)
(* Connectivity checks running beside a load.  SochNetwork.checkConnectivity*)
(* is started by the timer of onDOMContentLoaded and by                     *)
(* SochApp.checkConnectivity whatever loadFlipbook is doing; it writes the  *)
(* flag twice: the preliminary status before it awaits its probe, and the  *)
(* result of the probe after.  The load is the on-screen-debugging version  *)
(* of flipbook.js.                                                         *)
(***************************************************************************)
raceVars == <<report, naming, frames, lastEnsure, folders, api, net, app, build, remote, persisted,
              htmlStored, images, videos, downloadedUrls, pc, ret, jsonData,
              urlToFileMap, idx, counts, flags, handed, result, loads, sessions,
              passes, faults, h, errorScreen>>

\* checkConnectivity up to its probe: this.isOnline = navigatorOnline ||
\* capacitorOnline; with that true the probe is awaited, else the check ends
checkConnectivityBegin ==
    /\ ~probing.inFlight
    /\ \E preliminary \in {ProbeMade(navigatorOnline, status) :
                               navigatorOnline \in BOOLEAN, status \in ConnStatuses} :
          /\ isOnline' = preliminary
          /\ probing' = [inFlight |-> preliminary, lastOk |-> preliminary /\ probing.lastOk]
    /\ UNCHANGED raceVars

\* the probe settles: this.isOnline = testResponse.ok, or false in the catch
checkConnectivityEnd ==
    /\ probing.inFlight
    /\ \E answer \in ProbeResults :
          /\ isOnline' = (answer = "ok")
          /\ probing' = [inFlight |-> FALSE, lastOk |-> answer = "ok"]
    /\ UNCHANGED raceVars

InitRace == Init /\ build = "debug"

NextRace ==
    \/ checkConnectivityBegin
    \/ checkConnectivityEnd
    \/ LegacyLoadStart
    \/ LegacyHtml
    \/ LegacyRender
    \/ Extract
    \/ DownloadOne
    \/ cleanupUnusedFiles

SpecRace == InitRace /\ [][NextRace]_vars

(***************************************************************************)
(* The application shell (app.js): the launch button, initializeApp and    *)
(* the connectivity check it makes.  loadFlipbook, whose steps are the     *)
(* actions of Spec, is kept here by what initializeApp sees of it: its     *)
(* return value, the error screen, and SochUI.showFlipbook on success.     *)
(***************************************************************************)
appStoreVars == <<report, naming, frames, api, build, remote, persisted, htmlStored, images, videos,
                  downloadedUrls, pc, ret, jsonData, urlToFileMap, idx, counts, flags,
                  handed, loads, sessions, passes, faults, h>>

storeVars == <<report, probing, naming, frames, lastEnsure, folders, api, build, remote, persisted, htmlStored, images, videos, downloadedUrls,
               pc, ret, jsonData, urlToFileMap, idx, counts, flags, handed, loads,
               sessions, passes, faults, h>>

InitApp ==
    /\ build \in {"production"} \cup LegacyBuilds
    /\ remote = CatV1
    /\ isOnline = FALSE
    /\ persisted = NoCatalog
    /\ htmlStored = FALSE
    /\ images = {}
    /\ videos = {}
    /\ downloadedUrls = {}
    /\ pc = "idle"
    /\ ret = "idle"
    /\ jsonData = NoCatalog
    /\ urlToFileMap = <<>>
    /\ idx = 1
    /\ counts = NoCounts
    /\ flags = NoFlags
    /\ handed = NoCatalog
    /\ result = "none"
    /\ loads = 0
    /\ sessions = 1
    /\ passes = 0
    /\ faults = 0
    /\ h = NoHistory
    /\ errorScreen = "none"
    /\ api = NoCall
    /\ folders = {}
    /\ lastEnsure = NoEnsure
    /\ frames = <<>>
    /\ naming = NoNaming
    /\ probing = NoProbe
    /\ report = NoReportOf("part_003")
    /\ net \in {NoCheckOf(m) : m \in NetworkModules}
    /\ app = AppIdle

MaxIgnored == 1

\* a guard that lets every call through
initializationGuardOff == FALSE

\* if (initializationInProgress) return
initializationGuard == app.initializationInProgress

\* initializeApp up to its first await, called with the application in
\* state a: it returns at the guard, or sets the flag and shows the loading
\* state
initializeAppStart(a) ==
    IF initializationGuard
    THEN [a EXCEPT !.ignored = @ + 1]
    ELSE [a EXCEPT !.button = Button("Loading", TRUE),
                   !.initializationInProgress = TRUE,
                   !.pipelines = @ + 1,
                   !.pc = "permissions",
                   !.outcome = "none",
                   !.threwAt = "none"]

\* the click handler of the launch button: the button goes to "Launching",
\* then initializeApp
handleLaunchButtonClick ==
    /\ ~app.button.disabled
    /\ app.buttonShown
    /\ initializationGuard => app.ignored < MaxIgnored
    /\ app' = initializeAppStart([app EXCEPT !.button = Button("Launching", TRUE)])
    /\ UNCHANGED <<isOnline, result, errorScreen, net, storeVars>>

\* window.SochApp.initialize(): initializeApp called without the button
SochAppInitialize ==
    /\ initializationGuard => app.ignored < MaxIgnored
    /\ app' = initializeAppStart(app)
    /\ UNCHANGED <<isOnline, result, errorScreen, net, storeVars>>

\* catch and finally of initializeApp: SochUI.showError re-enables the
\* button as "Retry Launch", the flag is reset
InitializationThrows ==
    app' = [app EXCEPT !.button = Button("Retry Launch", FALSE),
                       !.initializationInProgress = FALSE,
                       !.pipelines = @ - 1,
                       !.pc = "ready",
                       !.outcome = "exception",
                       !.threwAt = app.pc]

\* Filesystem.checkPermissions().publicStorage
PermissionStates == {"granted", "denied", "prompt"}

\* SochStorage.checkAndRequestPermissions as a function of what the plugin
\* does: nothing is asked in browser mode; a rejected checkPermissions or
\* requestPermissions is rethrown; the answer to requestPermissions is not
\* looked at
PermissionStepThrows(isCapacitor, status, checkRejects, requestRejects) ==
    /\ isCapacitor
    /\ \/ checkRejects
       \/ status # "granted" /\ requestRejects

\* what the permission step met: the storage permission is granted, denied
\* (asked for and refused), or the check itself failed
PermissionMet(isCapacitor, status, checkRejects, requestRejects, answer) ==
    IF ~isCapacitor THEN "granted"
    ELSE IF checkRejects THEN "error"
    ELSE IF status = "granted" THEN "granted"
    ELSE IF requestRejects THEN "error"
    ELSE answer

\* step 1: SochStorage.checkAndRequestPermissions
checkAndRequestPermissions ==
    /\ app.pc = "permissions"
    /\ \E step \in {<<PermissionMet(isCapacitor, status, checkRejects,
                                     requestRejects, answer),
                       PermissionStepThrows(isCapacitor, status, checkRejects,
                                            requestRejects)>> :
                         isCapacitor \in BOOLEAN, status \in PermissionStates,
                         checkRejects \in BOOLEAN, requestRejects \in BOOLEAN,
                         answer \in {"granted", "denied"}} :
          LET met == step[1]
          IN  IF step[2]
              THEN app' = [app EXCEPT !.button = Button("Retry Launch", FALSE),
                                      !.initializationInProgress = FALSE,
                                      !.pipelines = @ - 1,
                                      !.pc = "ready",
                                      !.outcome = "exception",
                                      !.threwAt = "permissions",
                                      !.permission = met]
              ELSE app' = [app EXCEPT !.pc = "folders", !.permission = met]
    /\ UNCHANGED <<isOnline, result, errorScreen, net, storeVars>>

\* step 2: SochStorage.ensureAppFolders
ensureAppFolders ==
    /\ app.pc = "folders"
    /\ \E ensured \in {EnsureRecord(TRUE, failAt) : failAt \in 0..Len(FolderOrder)} :
          /\ lastEnsure' = ensured
          /\ folders' = ensured.after
          /\ IF lastEnsure'.threw
             THEN InitializationThrows
             ELSE app' = [app EXCEPT !.pc = "connectivity"]
    /\ UNCHANGED <<isOnline, result, errorScreen, net, probing, appStoreVars>>

\* step 3: SochNetwork.checkConnectivity of the network module loaded
initializeAppConnectivity ==
    /\ app.pc = "connectivity"
    /\ \E check \in
          {[module |-> net.module,
            checked |-> TRUE,
            navigatorOnline |-> navigatorOnline,
            status |-> status,
            probe |-> IF ProbeMade(navigatorOnline, status) /\ ~fatal
                      THEN probe ELSE "skipped",
            fatal |-> fatal,
            returned |-> checkConnectivityOf(net.module, navigatorOnline, status,
                                             probe, fatal)] :
              navigatorOnline \in BOOLEAN, status \in ConnStatuses,
              probe \in ProbeResults, fatal \in BOOLEAN} :
          /\ isOnline' = check.returned
          /\ probing' = [inFlight |-> FALSE, lastOk |-> check.probe = "ok"]
          /\ net' = check
    /\ app' = [app EXCEPT !.pc = "load"]
    /\ UNCHANGED <<result, errorScreen, lastEnsure, folders, appStoreVars>>

\* the variables of the store and of the sync pass that a summarised
\* loadFlipbook leaves alone
passVars == <<report, probing, naming, frames, lastEnsure, folders, api, build, remote, images, videos, downloadedUrls, pc, ret, jsonData,
              urlToFileMap, idx, counts, flags, handed, loads, sessions, passes,
              faults, h>>

\* steps 4 and 5 and the finally block.  loadFlipbook is summarised by its
\* outcome: true when online or when catalog and viewer are stored, leaving
\* both stored; false (after showErrorMessage wrote the error screen into
\* #flipbookContainer) when online or when something is missing, the catalog
\* possibly saved before the failure.  The production loadFlipbook calls
\* SochUI.showFlipbook itself before it returns true.  On true
\* SochUI.showSuccess arms the 1000 ms timer for the button and
\* initializeApp the 1500 ms timer for showFlipbook; on false
\* SochUI.showError re-enables the button as "Retry Launch".
initializeAppLoad ==
    /\ app.pc = "load"
    /\ \/ /\ isOnline \/ (checkLocalJsonExists /\ checkLocalHtmlExists)
          /\ result' = "true"
          /\ errorScreen' = "none"
          /\ persisted' = IF isOnline THEN saveJsonData(remote) ELSE persisted
          /\ htmlStored' = TRUE
          /\ app' = [app EXCEPT !.pc = "ready",
                                !.initializationInProgress = FALSE,
                                !.pipelines = @ - 1,
                                !.outcome = "success",
                                !.timers = {"button", "flipbook"},
                                !.buttonShown = IF build = "production" THEN FALSE ELSE @,
                                !.flipbookShown = IF build = "production" THEN TRUE ELSE @]
       \/ /\ isOnline \/ ~(checkLocalJsonExists /\ checkLocalHtmlExists)
          /\ result' = "false"
          /\ errorScreen' = showErrorMessage
          /\ persisted' \in {persisted} \cup
                            (IF isOnline THEN {saveJsonData(remote)} ELSE {})
          /\ UNCHANGED htmlStored
          /\ app' = [app EXCEPT !.pc = "ready",
                                !.initializationInProgress = FALSE,
                                !.pipelines = @ - 1,
                                !.outcome = "failed",
                                !.button = Button("Retry Launch", FALSE)]
    /\ UNCHANGED <<isOnline, net, passVars>>

\* the 1000 ms timer of SochUI.showSuccess
showSuccessTimer ==
    /\ "button" \in app.timers
    /\ app' = [app EXCEPT !.timers = @ \ {"button"},
                          !.button = Button("Launch Successful", FALSE)]
    /\ UNCHANGED <<isOnline, result, errorScreen, net, storeVars>>

\* the 1500 ms timer of initializeApp: SochUI.showFlipbook, isInitialized
showFlipbookTimer ==
    /\ app.timers = {"flipbook"}
    /\ app' = [app EXCEPT !.timers = {},
                          !.buttonShown = FALSE,
                          !.flipbookShown = TRUE,
                          !.isInitialized = TRUE]
    /\ UNCHANGED <<isOnline, result, errorScreen, net, storeVars>>

\* SochUI.hideFlipbook, on the container's close button or on the viewer's
\* 'returnFromFlipbook' message: the container is displayed and holds one of
\* them, which the markup of the error screen replaces
hideFlipbook ==
    /\ app.flipbookShown
    /\ errorScreen = "none"
    /\ app' = [app EXCEPT !.flipbookShown = FALSE,
                          !.buttonShown = TRUE,
                          !.button = Button("Reopen Collection", FALSE)]
    /\ UNCHANGED <<isOnline, result, errorScreen, net, storeVars>>

NextApp ==
    \/ handleLaunchButtonClick
    \/ SochAppInitialize
    \/ checkAndRequestPermissions
    \/ ensureAppFolders
    \/ initializeAppConnectivity
    \/ initializeAppLoad
    \/ showSuccessTimer
    \/ showFlipbookTimer
    \/ hideFlipbook

SpecApp == InitApp /\ [][NextApp]_vars

(***************************************************************************)
(* The API client alone: one call of makeApiCall after another against a   *)
(* backend that answers anything.                                          *)
(***************************************************************************)
InitNet == InitApp

makeApiCallStep ==
    /\ \E endpoint \in Endpoints :
          \E response \in ApiResponses(endpoint) :
              api' = [called |-> TRUE, endpoint |-> endpoint,
                      response |-> response,
                      outcome |-> makeApiCall(endpoint, response)]
    /\ UNCHANGED <<build, remote, isOnline, persisted, htmlStored, images, videos,
                   downloadedUrls, pc, ret, jsonData, urlToFileMap, idx, counts,
                   flags, handed, result, loads, sessions, passes, faults, h,
                   errorScreen, net, app, folders, lastEnsure, frames, naming, probing, report>>

NextNet == makeApiCallStep

SpecNet == InitNet /\ [][NextNet]_vars

(***************************************************************************)
(* The folder layout alone: ensureAppFolders called again and again on     *)
(* any layout a device can hold, with files in the media folders.          *)
(***************************************************************************)
InitFolders ==
    /\ build = "production"
    /\ remote = CatV1
    /\ isOnline = FALSE
    /\ persisted = NoCatalog
    /\ htmlStored = FALSE
    /\ folders \in Layouts
    /\ images \in IF "images" \in folders THEN SUBSET InitialImages ELSE {{}}
    /\ videos \in IF "videos" \in folders THEN SUBSET InitialVideos ELSE {{}}
    /\ downloadedUrls = {}
    /\ pc = "idle"
    /\ ret = "idle"
    /\ jsonData = NoCatalog
    /\ urlToFileMap = <<>>
    /\ idx = 1
    /\ counts = NoCounts
    /\ flags = NoFlags
    /\ handed = NoCatalog
    /\ result = "none"
    /\ loads = 0
    /\ sessions = 1
    /\ passes = 0
    /\ faults = 0
    /\ h = NoHistory
    /\ errorScreen = "none"
    /\ api = NoCall
    /\ lastEnsure = NoEnsure
    /\ frames = <<>>
    /\ naming = NoNaming
    /\ probing = NoProbe
    /\ report = NoReportOf("part_003")
    /\ net = NoCheck
    /\ app = AppIdle

ensureAppFoldersCall ==
    /\ \E ensured \in {EnsureRecord(isCapacitor, failAt) :
                            isCapacitor \in BOOLEAN, failAt \in 0..Len(FolderOrder)} :
          /\ lastEnsure' = ensured
          /\ folders' = ensured.after
    /\ UNCHANGED <<build, remote, isOnline, persisted, htmlStored, images, videos,
                   downloadedUrls, pc, ret, jsonData, urlToFileMap, idx, counts,
                   flags, handed, result, loads, sessions, passes, faults, h,
                   errorScreen, net, app, api, frames, naming, probing, report>>

NextFolders == ensureAppFoldersCall

SpecFolders == InitFolders /\ [][NextFolders]_vars

(***************************************************************************)
(* getFileNameFromUrl alone: calls at any time, in any pass and session    *)
(* (nothing of a pass or session is read by it), while the clock runs.     *)
(***************************************************************************)
namingVars == <<report, probing, lastEnsure, folders, api, frames, net, app, build, remote, isOnline,
                persisted, htmlStored, images, videos, downloadedUrls, pc, ret,
                jsonData, urlToFileMap, idx, counts, flags, handed, result, loads,
                sessions, passes, faults, h, errorScreen>>

InitNaming == InitApp /\ build = "production"

\* time passes
Tick ==
    /\ naming.clock < MaxClock
    /\ naming' = [naming EXCEPT !.clock = @ + 1]
    /\ UNCHANGED namingVars

getFileNameFromUrlCall ==
    /\ Cardinality(naming.calls) < MaxCalls
    /\ \E module \in {"media", "storage"}, u \in NamedUrls, prefix \in NamePrefixes :
          naming' = [naming EXCEPT
                        !.calls = @ \cup {NameCall(module, u, prefix, naming.clock)}]
    /\ UNCHANGED namingVars

NextNaming == Tick \/ getFileNameFromUrlCall

SpecNaming == InitNaming /\ [][NextNaming]_vars

(***************************************************************************)
(* Properties of the synchronisation pass (specification SpecPass).        *)
(***************************************************************************)
Range(seq) == {seq[i] : i \in 1..Len(seq)}

\* the distinct non-empty media URLs of a catalog
DistinctUrls(cat) == {f.ref.url : f \in {g \in Range(MediaFields(cat)) : Truthy(g.ref)}}

\* a rewriting has just been done and the store has not changed since
Rewritten == pc = "idle" /\ passes > 0 /\ h.input # NoCatalog

\* C1 (as claimed): after replaceUrlsWithLocalPaths a media field carries a
\* local reference only if that file exists in local storage; a field whose
\* file is absent keeps its remote URL.
C1_LocalRefOnlyIfFileExists ==
    Rewritten =>
        \A f \in Range(MediaFields(handed)) :
            f.ref.scheme = "file" => f.ref.name \in Folder(f.ref.folder)

\* C4: the extraction map has exactly one entry per distinct media URL of
\* the catalog, one pass gives no URL to the transport twice, and it stores
\* at most one file per transport call.
C4_Dedup ==
    pc \in {"download", "rewrite"} =>
        /\ {e.url : e \in Range(urlToFileMap)} = DistinctUrls(jsonData)
        /\ Len(urlToFileMap) = Cardinality(DistinctUrls(jsonData))
        /\ \A i, j \in 1..Len(h.transport) : i # j => h.transport[i] # h.transport[j]
        /\ Range(h.transport) \subseteq {e.directUrl : e \in Range(urlToFileMap)}
        /\ Cardinality(h.stored) <= Len(h.transport)

\* C4 witness: two products reference the identical image URL, the pass is
\* through, and exactly one file was downloaded for one map entry.
C4_Witness ==
    /\ pc = "rewrite"
    /\ Len(jsonData.collections[1].products) = 2
    /\ jsonData.collections[1].products[1].image_url = Remote(UrlA)
    /\ jsonData.collections[1].products[2].image_url = Remote(UrlA)
    /\ Len(urlToFileMap) = 1
    /\ h.transport = <<UrlA>>
    /\ Cardinality(h.stored) = 1

\* every file of the extraction map was in its folder when the pass started
AllStoredAtStart ==
    \A e \in Range(urlToFileMap) : e.fileName \in h.start[e.folder]

\* the pass did nothing: no transport call, every entry skipped, no deletion,
\* folders as they were
PassDidNothing ==
    /\ h.transport = <<>>
    /\ counts.skippedCount = Len(urlToFileMap)
    /\ h.deleted = {}
    /\ images = h.start.images
    /\ videos = h.start.videos

NoUnusedAtStart ==
    /\ h.start.images \subseteq ActiveFiles(jsonData, "images")
    /\ h.start.videos \subseteq ActiveFiles(jsonData, "videos")

C6_CleanupExact ==
    (pc = "rewrite" /\ h.cleaned) =>
        /\ images = h.before.images \cap ActiveFiles(jsonData, "images")
        /\ videos = h.before.videos \cap ActiveFiles(jsonData, "videos")

\* C6 (amended): after cleanupUnusedFiles no wanted file has been deleted
\* and nothing was added; a folder holds exactly the wanted files it held
\* before when its listing and all its deletes succeeded; an unwanted file
\* that is left is one whose delete failed or whose folder could not be
\* listed.
CleanedFolder(folderName, now) ==
    LET S == h.before[folderName]
        W == ActiveFiles(jsonData, folderName)
    IN  /\ S \cap W \subseteq now
        /\ now \subseteq S
        /\ (folderName \notin h.noList /\ ~\E d \in h.noDel : d[1] = folderName)
               => now = S \cap W
        /\ \A f \in now \ W : folderName \in h.noList \/ <<folderName, f>> \in h.noDel

C6_CleanupExactUnlessFailed ==
    (pc = "rewrite" /\ h.cleaned) =>
        /\ CleanedFolder("images", images)
        /\ CleanedFolder("videos", videos)

\* C6 witness: a cleanup that deleted a stale file and kept a wanted one
C6_Witness ==
    /\ pc = "rewrite"
    /\ h.cleaned
    /\ StaleImage \in h.before.images
    /\ StaleImage \notin images
    /\ images # {}
    /\ images = h.before.images \cap ActiveFiles(jsonData, "images")

\* C7 (as claimed): for every media field the folder and file name that
\* replaceUrlsWithLocalPaths looks up are the ones extractUniqueMediaFiles
\* recorded for the field's URL.
C7_RewriteLooksUpExtractedName ==
    Rewritten =>
        \A lk \in Range(h.lookups) :
            /\ MapHas(urlToFileMap, lk.url)
            /\ MapGet(urlToFileMap, lk.url).folder = lk.folder
            /\ MapGet(urlToFileMap, lk.url).fileName = lk.fileName

(***************************************************************************)
(* Properties of loadFlipbook (specification Spec).                        *)
(***************************************************************************)
\* C2 (as claimed): json/data.json is overwritten with a fetched catalog
\* only after the media pass for that catalog has completed without error.
C2_PersistOnlyAfterPass ==
    persisted # h.persistedAtStart => (h.cleaned /\ counts.errorCount = 0)

\* C3 (as claimed): after an online load of the production version that
\* found the remote catalog changed and whose pass had no failure, images/
\* and videos/ hold exactly the files derived from the new catalog.
C3_FoldersMatchNewCatalog ==
    (/\ build = "production"
     /\ pc = "idle"
     /\ h.versionChecked
     /\ flags.needsDownload
     /\ h.cleaned
     /\ h.passFaults = 0)
        => /\ images = ActiveFiles(persisted, "images")
           /\ videos = ActiveFiles(persisted, "videos")

\* C8 (as claimed): when a load has rendered, every media field of the
\* stored catalog whose derived file exists locally carries, in the catalog
\* handed to the viewer, the local reference to that file.
C8_HandedIsRewritingOfPersisted ==
    (pc = "idle" /\ result = "true" /\ h.uriOk) =>
        LET fields == MediaFields(persisted)
            out == MediaFields(handed)
        IN  /\ Len(out) = Len(fields)
            /\ \A i \in 1..Len(fields) :
                  LET f == fields[i]
                      fileName == getFileNameFromUrl(f.ref.url, f.prefix)
                  IN  (Truthy(f.ref) /\ fileName \in Folder(f.folder))
                          => out[i].ref = FileUri(f.folder, fileName)

\* the running or last load is a warm start of the production version,
\* online, and its version check is over
WarmOnlineChecked ==
    build = "production" /\ h.warm /\ h.online /\ pc # "version"

C10_OneRemoteCheckPerSession == h.remoteChecks <= 1

\* a load has been started since the history was last cleared
LoadBegun == pc # "idle" \/ result # "none"

C12_OfflineWarmRenders ==
    (LoadBegun /\ ~h.online /\ h.warm) =>
        /\ ~h.network
        /\ h.transport = <<>>
        /\ persisted = h.persistedAtStart
        /\ pc = "idle" => (result = "true" /\ handed # NoCatalog)

\* C12 witness: an offline warm load has rendered a catalog with media
C12_Witness ==
    /\ pc = "idle"
    /\ result = "true"
    /\ ~h.online
    /\ h.warm
    /\ MediaFields(handed) # <<>>
    /\ images # {}

(***************************************************************************)
(* Properties of the connectivity check and of app.js (SpecApp).           *)
(***************************************************************************)
\* a connectivity check of the network module of storage.js has returned
\* without failing internally
StorageChecked == net.checked /\ net.module = "storage" /\ ~net.fatal

\* C13 (as claimed): checkConnectivity of storage.js returns offline whenever
\* Network.getStatus().connected is false, online when it is true and the
\* probe succeeds, offline when it is true and the probe fails, answers
\* non-OK or times out.
C13_ConnectivityTable ==
    StorageChecked =>
        /\ net.status = "disconnected" => ~net.returned
        /\ (net.status = "connected" /\ net.probe = "ok") => net.returned
        /\ (net.status = "connected" /\ net.probe \in {"notOk", "throws", "timeout"})
               => ~net.returned

\* C14 (as claimed): in every implementation, a check that fails internally
\* or whose probe throws or times out returns offline and leaves
\* SochNetwork.isOnline false.
C14_FailClosed ==
    (net.checked /\ (net.fatal \/ net.probe \in {"throws", "timeout"}))
        => (~net.returned /\ ~isOnline)

(***************************************************************************)
(* Further properties of the synchronisation pass (SpecPass).              *)
(***************************************************************************)
\* the keys of the first n entries of the extraction map, in map order
MapKeys(n) == [i \in 1..n |-> urlToFileMap[i].url]

\* C15: whatever failed before, the loop of downloadMediaFiles gives every
\* entry of the extraction map to downloadFile exactly once, in map order,
\* and the pass goes on to cleanup with every entry counted.
C15_BatchNeverAborts ==
    /\ pc = "download" =>
           /\ idx <= Len(urlToFileMap) + 1
           /\ h.attempts = MapKeys(idx - 1)
           /\ counts.downloadCount = idx - 1
    /\ (pc = "rewrite" /\ h.cleaned) =>
           /\ h.attempts = MapKeys(Len(urlToFileMap))
           /\ counts.downloadCount = Len(urlToFileMap)
           /\ counts.errorCount + counts.skippedCount + Cardinality(h.stored)
                  = Len(urlToFileMap)

\* C15 witness: the first of two downloads failed, the one after it was
\* made and stored, and the pass went through cleanup
C15_Witness ==
    /\ pc = "rewrite"
    /\ h.cleaned
    /\ Len(urlToFileMap) = 2
    /\ counts.errorCount = 1
    /\ Len(h.transport) = 2
    /\ Cardinality(h.stored) = 1
    /\ <<urlToFileMap[1].folder, urlToFileMap[1].fileName>> \notin h.stored

\* C16: in a pass, a download is started only with the extraction map
\* complete and fixed; a file is deleted only when every entry of the map
\* has been given to downloadFile and has returned; the rewriting of the
\* pass's catalog is done only after cleanup has run, and changes no file.
C16_PhasesOrdered ==
    [][ /\ h'.attempts # h.attempts /\ h'.attempts # <<>> =>
              /\ urlToFileMap = extractUniqueMediaFiles(jsonData)
              /\ urlToFileMap' = urlToFileMap
              /\ ~h.cleaned
        /\ (~(images \subseteq images') \/ ~(videos \subseteq videos')) =>
              /\ h.attempts = MapKeys(Len(urlToFileMap))
              /\ counts.downloadCount = Len(urlToFileMap)
              /\ h'.attempts = h.attempts
        /\ passes' # passes =>
              /\ h.cleaned
              /\ h.attempts = MapKeys(Len(urlToFileMap))
              /\ images' = images /\ videos' = videos
              /\ h'.lookups = LookupsOf(MediaFields(jsonData)) ]_vars

\* C16 witness: a pass downloaded a file, its cleanup deleted one, and its
\* catalog has been rewritten
C16_Witness ==
    /\ pc = "idle"
    /\ passes >= 1
    /\ h.stored # {}
    /\ h.deleted # {}
    /\ h.lookups # <<>>

(***************************************************************************)
(* Further properties of loadFlipbook (Spec).                              *)
(***************************************************************************)
\* C17: json/data.json is absent or holds a catalog as the backend served
\* it; none of its media fields holds a local reference.
C17_PersistedIsAsFetched ==
    persisted # NoCatalog =>
        /\ persisted \in RemoteCatalogs
        /\ \A f \in Range(MediaFields(persisted)) : f.ref.scheme = "remote"

\* C17 witness: the viewer was handed a catalog with a local reference
\* while json/data.json holds the catalog with the remote URLs
C17_Witness ==
    /\ pc = "idle"
    /\ result = "true"
    /\ \E f \in Range(MediaFields(handed)) : f.ref.scheme = "file"
    /\ persisted # NoCatalog
    /\ persisted # handed

\* a load has ended: it returned true with the catalog handed to the viewer
\* and no error screen, or false with the error screen whose hint is the
\* first-time-setup one when the connectivity flag was offline and the
\* check-connection one when it was online
LoadEndedProperly ==
    \/ /\ result = "true"
       /\ handed # NoCatalog
       /\ errorScreen = "none"
    \/ /\ result = "false"
       /\ handed = NoCatalog
       /\ errorScreen = IF h.online THEN "check connection and retry"
                        ELSE "first-time setup"

\* C19: every loadFlipbook that is started ends, and it ends by returning
\* true or false, a failure with the error screen and the hint that goes
\* with the connectivity flag.
C19_LoadAlwaysEnds ==
    /\ []((LoadBegun /\ pc = "idle") => LoadEndedProperly)
    /\ []((pc # "idle") => (result = "none" /\ errorScreen = "none"))
    /\ ((pc # "idle") ~> (pc = "idle" /\ LoadEndedProperly))

\* C19 witness: an online load failed after a network call and shows the
\* check-connection hint
C19_Witness ==
    /\ pc = "idle"
    /\ result = "false"
    /\ h.online
    /\ h.network
    /\ errorScreen = "check connection and retry"

(***************************************************************************)
(* File names (SpecPass).                                                  *)
(***************************************************************************)
\* C18 (as claimed): within one extraction map two distinct URLs of the
\* same folder never get the same file name.
C18_FileNamesInjective ==
    pc \in {"download", "rewrite"} =>
        \A i, j \in 1..Len(urlToFileMap) :
            (i # j /\ urlToFileMap[i].folder = urlToFileMap[j].folder)
                => urlToFileMap[i].fileName # urlToFileMap[j].fileName

(***************************************************************************)
(* The error screen and the retry button on the page (SpecApp).            *)
(***************************************************************************)
\* #flipbookContainer is displayed: only SochUI.showFlipbook displays it,
\* the style sheet and SochUI.initializeState hide it
ContainerDisplayed == app.flipbookShown

\* C19 (as claimed, on the page): every load that failed has left the error
\* screen shown, with the first-time-setup hint when the connectivity flag
\* is offline and the check-connection hint when it is online.
C19_FailureShowsHint ==
    (app.outcome = "failed")
        => (/\ errorScreen = (IF isOnline THEN "check connection and retry"
                                         ELSE "first-time setup")
            /\ ContainerDisplayed)

\* C20 (as claimed, for the finishes with an error): while the app rests
\* after an initializeApp that ended with loadFlipbook returning false or
\* with an exception, initializationInProgress is false and the launch
\* button is there as an enabled retry action, so that a click starts a new
\* initialization.
C20_RetryAfterError ==
    (app.pc = "ready" /\ app.outcome \in {"failed", "exception"})
        => (/\ ~app.initializationInProgress
            /\ ~app.button.disabled
            /\ app.buttonShown
            /\ ENABLED handleLaunchButtonClick)

(***************************************************************************)
(* Storage permission at startup (SpecApp).                                *)
(***************************************************************************)
\* C21 (as claimed): once the catalog and the viewer HTML are cached, a
\* permission denial or a failing permission check does not abort the
\* launch: no initializeApp that met one of them with the cache present
\* ended at the permission step.
C21_PermissionNotFatalWithCache ==
    (/\ app.pc = "ready"
     /\ app.permission \in {"denied", "error"}
     /\ checkLocalJsonExists /\ checkLocalHtmlExists)
        => ~(app.outcome = "exception" /\ app.threwAt = "permissions")

(***************************************************************************)
(* makeApiCall (SpecNet).                                                  *)
(***************************************************************************)
\* C22 (as claimed): makeApiCall fails when the HTTP status is not
\* successful, when the body is not valid JSON and when the response array
\* is empty; it returns a value only when the array has a first element,
\* and then that element.
C22_ApiCallFailsOrReturnsFirst ==
    api.called =>
        LET r == api.response
            answered == r.fetch = "resolved"
            hasFirst == /\ answered
                        /\ ResponseOk(r)
                        /\ r.body.kind = "array"
                        /\ r.body.rows # <<>>
        IN  /\ (answered /\ ~ResponseOk(r)) => api.outcome.threw
            /\ (answered /\ r.body.kind = "invalid") => api.outcome.threw
            /\ (answered /\ r.body.kind = "array" /\ r.body.rows = <<>>)
                   => api.outcome.threw
            /\ (~api.outcome.threw /\ api.outcome.value # Undefined)
                   => (hasFirst /\ api.outcome.value = r.body.rows[1])

(***************************************************************************)
(* The not-found signal of readLocalJsonData (Spec).                       *)
(***************************************************************************)
\* C23: a load that got null from readLocalJsonData at its start (no
\* catalog stored, or the file unreadable) treats it as a first run: it
\* never takes it for a stored catalog and makes no version check; offline
\* it ends with the error screen and false, without a network call; online
\* it returns true only after having fetched and stored a catalog.
C23_NullIsFirstRun ==
    (LoadBegun /\ h.persistedAtStart = NoCatalog) =>
        /\ ~h.warm
        /\ ~h.versionChecked
        /\ pc # "version"
        /\ ~h.online => (pc = "idle" /\ result = "false" /\ ~h.network)
        /\ (h.online /\ result = "true") => (h.network /\ persisted # NoCatalog)
        /\ handed # NoCatalog => persisted # NoCatalog

\* C23 witness: the catalog was lost while the viewer HTML stayed, and an
\* offline load has ended with the error screen
C23_Witness ==
    /\ pc = "idle"
    /\ result = "false"
    /\ h.persistedAtStart = NoCatalog
    /\ htmlStored
    /\ ~h.online
    /\ errorScreen = "first-time setup"

C25_PostedOncePerLoadSignal ==
    \A k \in DOMAIN frames :
        /\ Len(frames[k].inbox) <= frames[k].signals
        /\ \A i \in DOMAIN frames[k].inbox :
               frames[k].inbox[i] = Message(frames[k].collections)
        /\ Len(frames[k].inbox) + frames[k].timers = frames[k].signals

(***************************************************************************)
(* getFileNameFromUrl (SpecNaming).                                        *)
(***************************************************************************)
\* C26: for a fixed URL and prefix getFileNameFromUrl returns the same
\* file name on every call, whenever it is made, its error fallback
\* included: two calls of the same function with the same URL and prefix
\* never differ in the name.
C26_FileNameDeterministic ==
    \A a, b \in naming.calls :
        (a.module = b.module /\ a.url = b.url /\ a.prefix = b.prefix) =>
            a.fileName = b.fileName

(***************************************************************************)
(* The media pass inside the loads of a session (Spec).                    *)
(***************************************************************************)
\* C27: when a pass has run to the end of its cleanup and counted no
\* download error, every entry of its extraction map has its file in its
\* folder, whatever passes and catalogs the session saw before.
C27_MapFilesStoredAfterCleanPass ==
    (h.cleaned /\ counts.errorCount = 0) =>
        \A i \in DOMAIN urlToFileMap :
            urlToFileMap[i].fileName \in Folder(urlToFileMap[i].folder)

\* C28: a detected update whose download branch failed is not dropped:
\* when a version check of the production loadFlipbook found the remote
\* catalog changed and the download branch ended in its catch, the next
\* online load that sees the same remote catalog decides to download again
\* (needsDownload), at its start when nothing usable is stored and else at
\* its version check.
C28_FailedUpdateDetectedAgain ==
    (/\ build = "production"
     /\ LoadBegun
     /\ h.online
     /\ h.prevFailed # NoCatalog)
        => /\ ~h.warm => flags.needsDownload
           /\ (h.versionChecked /\ h.remoteSeen = h.prevFailed) => flags.needsDownload

(***************************************************************************)
(* The connectivity flag during a load (SpecRace).                         *)
(***************************************************************************)
\* C29: all reads of SochNetwork.isOnline that one loadFlipbook makes yield
\* the same value, none of them yields true while the last probe has not
\* succeeded, and a load that fetched and saved the catalog as online runs
\* the media pass for it before it rewrites and renders.
C29_ConnectivityStableInLoad ==
    (build \in LegacyBuilds /\ LoadBegun) =>
        /\ Cardinality(h.reads) <= 1
        /\ ~h.unprobedRead
        /\ (h.online /\ ~flags.useLocalData /\ persisted = jsonData
              /\ (pc = "lrender" \/ (pc = "idle" /\ result = "true")))
               => h.cleaned

(***************************************************************************)
(* The guard of initializeApp (SpecApp).                                   *)
(***************************************************************************)
\* C30: at most one initializeApp is between its guard and its finally,
\* and the flag is set exactly while one is; a call that arrives meanwhile
\* (a click on the launch button or SochApp.initialize) returns at the
\* guard: the running pipeline keeps its position and its flag, and nothing
\* of the store, the connectivity flag or the screen of the load changes.
C30_SinglePipeline ==
    /\ [](/\ app.pipelines <= 1
          /\ app.initializationInProgress <=> app.pipelines = 1
          /\ app.pc # "ready" => app.initializationInProgress)
    /\ [][app'.ignored # app.ignored =>
             /\ app.initializationInProgress
             /\ app' = [app EXCEPT !.ignored = @ + 1, !.button = app'.button]
             /\ UNCHANGED <<isOnline, result, errorScreen, net, storeVars>>]_vars

\* C30 witness: a call was turned away at the guard and the pipeline it met
\* is still running, at its connectivity step
C30_Witness ==
    /\ app.ignored > 0
    /\ app.initializationInProgress
    /\ app.pipelines = 1
    /\ app.pc = "connectivity"

(***************************************************************************)
(* SochStorage.downloadFile inside the loop of the pass (Spec).            *)
(***************************************************************************)
\* the entry the loop of the pass is at
CurrentEntry == urlToFileMap[idx]

\* the step is one call of downloadFile made by the loop
DownloadFileStep == pc = "download" /\ idx <= Len(urlToFileMap) /\ idx' # idx

C32_DownloadedUrlsOnlyGrows ==
    [][sessions' = sessions =>
         /\ downloadedUrls \subseteq downloadedUrls'
         /\ \A u \in downloadedUrls' \ downloadedUrls :
               /\ DownloadFileStep
               /\ u = CurrentEntry.directUrl
               /\ counts'.errorCount = counts.errorCount
               /\ \/ /\ CurrentEntry.fileName \in Folder(CurrentEntry.folder)
                     /\ h'.transport = h.transport
                     /\ UNCHANGED <<images, videos>>
                  \/ /\ h'.transport = Append(h.transport, u)
                     /\ <<CurrentEntry.folder, CurrentEntry.fileName>> \in h'.stored
         /\ counts'.errorCount # counts.errorCount => downloadedUrls' = downloadedUrls]_vars

\* C32 witness: in a later load of a session the set still holds URLs, the
\* pass has had a download fail, and the URL of the failed download is not
\* in the set
C32_Witness ==
    /\ loads >= 2
    /\ pc = "download"
    /\ counts.errorCount > 0
    /\ downloadedUrls # {}
    /\ \E u \in Range(h.transport) : u \notin downloadedUrls

(***************************************************************************)
(* The completion status of downloadMediaFiles (SpecReport).               *)
(***************************************************************************)
\* the calls of downloadFile of the running pass that went to the transport
\* and stored their file, that went to the transport and threw, and that
\* returned null
PassFetched == Cardinality(h.stored)

PassThrew == Len(h.transport) - Cardinality(h.stored)

PassSkipped == Len(h.attempts) - Len(h.transport)

\* C33: the counts of the completion status that a pass logs satisfy
\* processed = skipped + downloaded + failed (failed is 0 when the module
\* logs no error count), where processed is the size of the extraction map,
\* skipped the number of entries whose downloadFile returned null, failed
\* the number whose downloadFile threw and downloaded the number the
\* transport fetched.
C33_ReportedCountsExact ==
    report.logged =>
        /\ report.processed = Len(urlToFileMap)
        /\ report.processed = report.skipped + report.downloaded + report.failed
        /\ report.skipped = PassSkipped
        /\ report.failed = PassThrew
        /\ report.downloaded = PassFetched

(***************************************************************************)
(* Failures inside cleanupUnusedFiles (SpecPass).                          *)
(***************************************************************************)
\* the step is the cleanup of the running pass
CleanupStep == ~h.cleaned /\ h'.cleaned

\* what a folder holds after a cleanup in which the listings of noList and
\* the deletes of noDel failed and everything else was carried out
AfterCleanup(folderName, files, noList, noDel) ==
    IF folderName \in noList THEN files
    ELSE {f \in files : f \in ActiveFiles(jsonData, folderName)
                          \/ <<folderName, f>> \in noDel}

\* C34: cleanupUnusedFiles does not throw.  Whatever listing or delete
\* fails in it, downloadMediaFiles returns to its caller without an error;
\* a folder whose listing failed is left as it was; in every other folder
\* each unused file is deleted except those whose delete failed, which stay.
C34_CleanupNeverThrows ==
    [][CleanupStep =>
         /\ pc' = ret
         /\ UNCHANGED <<result, errorScreen, counts, jsonData>>
         /\ images' = AfterCleanup("images", images, h'.noList, h'.noDel)
         /\ videos' = AfterCleanup("videos", videos, h'.noList, h'.noDel)
         /\ \A d \in h'.noDel : d[2] \in (IF d[1] = "images" THEN images' ELSE videos')]_vars

\* C34 witness: a cleanup ended with one delete failed; the file is still
\* stored, another unused file of the same folder was deleted and so was an
\* unused file of the other folder, and the pass went on to the rewriting
C34_Witness ==
    /\ h.cleaned
    /\ pc = "rewrite"
    /\ \E d \in h.noDel :
          /\ d[2] \in Folder(d[1])
          /\ \E x \in h.deleted : x[1] = d[1]
          /\ \E x \in h.deleted : x[1] # d[1]

(***************************************************************************)
(* The object given to replaceUrlsWithLocalPaths (SpecRewrite).            *)
(***************************************************************************)
\* every non-empty media field of the catalog holds a remote URL
AllRemote(cat) ==
    \A i \in DOMAIN MediaFields(cat) :
        Truthy(MediaFields(cat)[i].ref) => MediaFields(cat)[i].ref.scheme = "remote"

\* C35: replaceUrlsWithLocalPaths leaves the catalog object it was given as
\* it was: after the call, ended normally, in the catch or at the browser
\* test, the object equals the catalog passed in and every media field of it
\* still holds its remote URL; the substitutions are in the returned object
\* only, and only when the call ended normally on a device.
C35_InputCatalogUntouched ==
    passes > 0 =>
        /\ jsonData = h.input
        /\ AllRemote(jsonData)
        /\ handed = IF h.rewriteCall.isCapacitor /\ h.rewriteCall.failAt = 0
                    THEN replaceUrlsWithLocalPaths(h.input, h.uriOk)
                    ELSE h.input

\* C35 witness: a call on a catalog of two collections threw on reaching the
\* second, after the substitution in the first; the catalog passed in is
\* unchanged and is what the call returned
C35_Witness ==
    /\ passes > 0
    /\ h.rewriteCall.failAt = 2
    /\ replaceUrlsWithLocalPaths(h.input, TRUE).collections[1] # h.input.collections[1]
    /\ jsonData = h.input
    /\ handed = h.input

(***************************************************************************)
(* The probe of checkConnectivity (SpecApp).                               *)
(***************************************************************************)
\* C36: checkConnectivity of storage.js sends its probe to the backend only
\* when navigator.onLine is true or Network.getStatus() says connected; when
\* navigator.onLine is false and the status says disconnected, no probe is
\* sent, the check returns false and SochNetwork.isOnline is false.
C36_ProbeOnlyIfPlatformOnline ==
    (net.checked /\ net.module = "storage") =>
        /\ net.probe # "skipped" => (net.navigatorOnline \/ net.status = "connected")
        /\ (~net.navigatorOnline /\ net.status = "disconnected")
               => (net.probe = "skipped" /\ ~net.returned /\ ~isOnline)

\* C36 witness: a check of storage.js met navigator.onLine false and a
\* disconnected status, sent no probe and returned false
C36_Witness ==
    /\ net.checked
    /\ net.module = "storage"
    /\ ~net.fatal
    /\ ~net.navigatorOnline
    /\ net.status = "disconnected"
    /\ net.probe = "skipped"
    /\ ~net.returned
    /\ app.pc = "load"

(***************************************************************************)
(* convertDropboxUrl (SpecConvert).                                        *)
(***************************************************************************)
\* how often the parameter p stands in the query q
Occurrences(p, q) == Cardinality({i \in DOMAIN q : q[i] = p})

\* C37: convertDropboxUrl returns a URL that is not Dropbox's as it is; for
\* a Dropbox URL the query of the result holds dl=1 exactly once and no
\* dl=0; and applied to its own result it returns that result.
C37_ConvertDropboxUrl ==
    LET c == h.converting
    IN  /\ (c.calls >= 1 /\ c.original.host # "dropbox.com") => c.output = c.original
        /\ (c.calls >= 1 /\ c.original.host = "dropbox.com")
               => /\ Occurrences("dl=1", c.output.query) = 1
                  /\ Occurrences("dl=0", c.output.query) = 0
        /\ c.calls >= 2 => c.output = c.input

====
